---- MODULE Spec2Model ----
(***************************************************************************)
(* Model of the element-addressing and batched-mutation layer of oodles:   *)
(* TextBlock._fill (markup parser and request builder), Slide.find /       *)
(* find_all / __setitem__, TextBlocks, Images / Image and BatchUpdate.     *)
(*                                                                         *)
(* Python strings are modelled as sequences of one-character strings, and  *)
(* indices are 0-based as in the source.                                   *)
(***************************************************************************)
EXTENDS Integers, Sequences, FiniteSets, TLC

\* --------------------------------------------------------------------------
\* Bounds of the model
\* --------------------------------------------------------------------------
\* number of markup fragments a filled value is assembled from
MaxFrags == 4
\* how many of those fragments may be (well- or ill-formed) link openers
MaxLinkFrags == 2
\* number of fragments of a value that holds bold / italic markup only
MaxNest == 6

\* --------------------------------------------------------------------------
\* Python string primitives
\* --------------------------------------------------------------------------
Min(S) == CHOOSE x \in S : \A y \in S : x <= y

Max2(a, b) == IF a >= b THEN a ELSE b

\* s[i:j] for 0 <= i
Slice(s, i, j) == SubSeq(s, i + 1, IF j <= Len(s) THEN j ELSE Len(s))

\* s[i:i+len(pat)] == pat
StartsAt(s, pat, i) == Slice(s, i, i + Len(pat)) = pat

\* s.find(pat, start) for start >= 0: lowest index or -1
StrFind(s, pat, start) ==
    LET hits == {i \in start..(Len(s) - Len(pat)) : StartsAt(s, pat, i)}
    IN  IF hits = {} THEN -1 ELSE Min(hits)

\* pat in s
Contains(s, pat) == StrFind(s, pat, 0) # -1

RECURSIVE Concat(_)
Concat(ss) == IF ss = <<>> THEN <<>> ELSE Head(ss) \o Concat(Tail(ss))

\* --------------------------------------------------------------------------
\* The tags TextBlock._fill looks for
\* --------------------------------------------------------------------------
TagB == <<"<", "b", ">">>
TagBEnd == <<"<", "/", "b", ">">>
TagI == <<"<", "i", ">">>
TagIEnd == <<"<", "/", "i", ">">>
TagAEnd == <<"<", "/", "a", ">">>
TagAStart == <<"<", "a">>
TagASpace == <<"<", "a", " ">>
HrefEq == <<"h", "r", "e", "f", "=">>
ColorEq == <<"c", "o", "l", "o", "r", "=">>
Gt == <<">">>

\* the `has_formatting` test of _fill
has_formatting(new_text) ==
    \/ Contains(new_text, TagB) /\ Contains(new_text, TagBEnd)
    \/ Contains(new_text, TagI) /\ Contains(new_text, TagIEnd)
    \/ Contains(new_text, TagASpace) /\ Contains(new_text, TagAEnd)

\* the "no colour" value of a link (Python None); no character sequence equals it
NoColor == <<"None">>

\* local variables of the scanning loop of _fill before the first iteration
ScanInit ==
    [ current_index |-> 0, text_parts |-> <<>>,
      bold_ranges |-> <<>>, italic_ranges |-> <<>>, link_ranges |-> <<>>,
      bold_start_indices |-> <<>>, italic_start_indices |-> <<>>,
      link_data |-> <<>>, raised |-> FALSE ]

Push(stack, x) == Append(stack, x)
Top(stack) == stack[Len(stack)]
Pop(stack) == SubSeq(stack, 1, Len(stack) - 1)

\* "Regular text" / "treat as regular text": copy one character, advance by one
CopyChar(s, st) ==
    [st EXCEPT !.text_parts = Append(@, s[st.current_index + 1]),
               !.current_index = @ + 1]

\* `tag_end = new_text.find(">", ...)` and the `if tag_end != -1` block
LinkTagEnd(s, st, url, color, tag_end) ==
    IF tag_end = -1 THEN CopyChar(s, st)
    ELSE [st EXCEPT !.link_data = Push(@, <<Len(st.text_parts), url, color>>),
                    !.current_index = tag_end + 1]

\* the url, and `max(href_end, color_end if color else href_end)`: an empty
\* colour is falsy
LinkColor(s, st, href_start, href_end, color, color_end) ==
    LinkTagEnd(s, st, Slice(s, href_start + 6, href_end), color,
               StrFind(s, Gt, Max2(href_end, IF color # NoColor /\ color # <<>>
                                             THEN color_end ELSE href_end)))

\* the `if color_end != -1` block
LinkColorEnd(s, st, href_start, href_end, color_start, color_end) ==
    LinkColor(s, st, href_start, href_end,
              IF color_end # -1 THEN Slice(s, color_start + 7, color_end) ELSE NoColor,
              color_end)

\* the search for color= between the `<a` and the first `>` after the href
LinkColorStart(s, st, href_start, href_end, color_start) ==
    IF color_start # -1 /\ color_start < StrFind(s, Gt, href_end)
    THEN LinkColorEnd(s, st, href_start, href_end, color_start,
                      StrFind(s, <<s[color_start + 6 + 1]>>, color_start + 7))
    ELSE LinkColor(s, st, href_start, href_end, NoColor, -1)

\* the `if href_end != -1` block
LinkHrefEnd(s, st, href_start, href_end) ==
    IF href_end = -1 THEN CopyChar(s, st)
    ELSE LinkColorStart(s, st, href_start, href_end, StrFind(s, ColorEq, st.current_index))

\* the `if href_start != -1` block; quote_char is new_text[href_start + 5]
LinkHrefStart(s, st, href_start) ==
    IF href_start = -1 THEN CopyChar(s, st)
    ELSE IF href_start + 5 >= Len(s)
    THEN [st EXCEPT !.raised = TRUE]        \* new_text[href_start + 5]: IndexError
    ELSE LinkHrefEnd(s, st, href_start,
                     StrFind(s, <<s[href_start + 5 + 1]>>, href_start + 6))

\* the `elif new_text[current_index : current_index + 2] == "<a"` branch
ScanLinkOpen(s, st) == LinkHrefStart(s, st, StrFind(s, HrefEq, st.current_index))

\* the `<b>` and `<i>` branches: push len("".join(text_parts)), skip the tag
OpenBold(st) ==
    [st EXCEPT !.bold_start_indices = Push(@, Len(st.text_parts)),
               !.current_index = @ + 3]

OpenItalic(st) ==
    [st EXCEPT !.italic_start_indices = Push(@, Len(st.text_parts)),
               !.current_index = @ + 3]

\* variant of the `</b>` branch that takes the oldest pending start
\* (bold_start_indices[0]) instead of the one pushed last
CloseBoldOldest(st) ==
    IF st.bold_start_indices # <<>>
    THEN [st EXCEPT !.bold_ranges =
                        Append(@, <<st.bold_start_indices[1], Len(st.text_parts)>>),
                    !.bold_start_indices = Pop(@),
                    !.current_index = @ + 4]
    ELSE [st EXCEPT !.current_index = @ + 4]

\* the `</b>` and `</i>` branches: pop and emit a range if a start is pending,
\* skip the tag in either case
CloseBold(st) ==
    IF st.bold_start_indices # <<>>
    THEN [st EXCEPT !.bold_ranges =
                        Append(@, <<Top(st.bold_start_indices), Len(st.text_parts)>>),
                    !.bold_start_indices = Pop(@),
                    !.current_index = @ + 4]
    ELSE [st EXCEPT !.current_index = @ + 4]

CloseItalic(st) ==
    IF st.italic_start_indices # <<>>
    THEN [st EXCEPT !.italic_ranges =
                        Append(@, <<Top(st.italic_start_indices), Len(st.text_parts)>>),
                    !.italic_start_indices = Pop(@),
                    !.current_index = @ + 4]
    ELSE [st EXCEPT !.current_index = @ + 4]

\* the `</a>` branch
CloseLink(st) ==
    IF st.link_data # <<>>
    THEN LET d == Top(st.link_data)
         IN  [st EXCEPT !.link_ranges = Append(@, <<d[1], Len(st.text_parts), d[2], d[3]>>),
                        !.link_data = Pop(@),
                        !.current_index = @ + 4]
    ELSE [st EXCEPT !.current_index = @ + 4]

\* one iteration of `while current_index < len(new_text)`
ScanStep(s, st) ==
    LET ci == st.current_index IN
    IF StartsAt(s, TagB, ci) THEN OpenBold(st)
    ELSE IF StartsAt(s, TagBEnd, ci) THEN CloseBold(st)
    ELSE IF StartsAt(s, TagI, ci) THEN OpenItalic(st)
    ELSE IF StartsAt(s, TagIEnd, ci) THEN CloseItalic(st)
    ELSE IF StartsAt(s, TagAStart, ci) THEN ScanLinkOpen(s, st)
    ELSE IF StartsAt(s, TagAEnd, ci) THEN CloseLink(st)
    ELSE CopyChar(s, st)

\* the whole `while` loop: the locals after the last iteration (or at the raise)
RECURSIVE Scan(_, _)
Scan(s, st) ==
    IF st.raised \/ st.current_index >= Len(s) THEN st
    ELSE CHOOSE after \in {Scan(s, locals) : locals \in {ScanStep(s, st)}} : TRUE

\* --------------------------------------------------------------------------
\* Link colours (the `if color:` block of _fill)
\* --------------------------------------------------------------------------
\* colour components are kept as integers in units of 1/1020, so that the
\* palette values (0.5, 0.65, 0.8, 1.0) and n/255 are all exact

NoRGB == <<>>

UpperCase == <<"A","B","C","D","E","F","G","H","I","J","K","L","M",
               "N","O","P","Q","R","S","T","U","V","W","X","Y","Z">>
LowerCase == <<"a","b","c","d","e","f","g","h","i","j","k","l","m",
               "n","o","p","q","r","s","t","u","v","w","x","y","z">>

\* str.lower()
Lower(s) ==
    [k \in 1..Len(s) |->
        IF \E n \in 1..26 : UpperCase[n] = s[k]
        THEN LowerCase[CHOOSE n \in 1..26 : UpperCase[n] = s[k]]
        ELSE s[k]]

HexChars == <<"0","1","2","3","4","5","6","7","8","9","a","b","c","d","e","f">>

IsHexDigit(c) == \E n \in 1..16 : HexChars[n] = Lower(<<c>>)[1]

HexDigit(c) == (CHOOSE n \in 1..16 : HexChars[n] = Lower(<<c>>)[1]) - 1

\* int(s, 16) of a two-character string; HexError stands for ValueError.
\* Two hex digits, or a sign / blank followed by one hex digit, or one hex
\* digit followed by a blank, are what int() accepts in two characters.
HexError == 0 - 1000

Int16(s) ==
    IF IsHexDigit(s[1]) /\ IsHexDigit(s[2]) THEN 16 * HexDigit(s[1]) + HexDigit(s[2])
    ELSE IF s[1] \in {"+", " "} /\ IsHexDigit(s[2]) THEN HexDigit(s[2])
    ELSE IF s[1] = "-" /\ IsHexDigit(s[2]) THEN 0 - HexDigit(s[2])
    ELSE IF IsHexDigit(s[1]) /\ s[2] = " " THEN HexDigit(s[1])
    ELSE HexError

\* the palette and the #RRGGBB branch: the rgb of a truthy colour, or NoRGB
ColorRGB(color) ==
    LET c == Lower(color) IN
    IF c = <<"r","e","d">> THEN <<1020, 0, 0>>
    ELSE IF c = <<"g","r","e","e","n">> THEN <<0, 816, 0>>
    ELSE IF c = <<"b","l","u","e">> THEN <<0, 0, 1020>>
    ELSE IF c = <<"b","l","a","c","k">> THEN <<0, 0, 0>>
    ELSE IF c = <<"w","h","i","t","e">> THEN <<1020, 1020, 1020>>
    ELSE IF c = <<"y","e","l","l","o","w">> THEN <<1020, 1020, 0>>
    ELSE IF c = <<"p","u","r","p","l","e">> THEN <<510, 0, 510>>
    ELSE IF c = <<"o","r","a","n","g","e">> THEN <<1020, 663, 0>>
    ELSE IF c = <<"g","r","a","y">> \/ c = <<"g","r","e","y">> THEN <<510, 510, 510>>
    ELSE IF Len(color) = 7 /\ color[1] = "#"
    THEN LET r == Int16(Slice(color, 1, 3))
             g == Int16(Slice(color, 3, 5))
             b == Int16(Slice(color, 5, 7))
         IN  IF HexError \in {r, g, b} THEN NoRGB ELSE <<4 * r, 4 * g, 4 * b>>
    ELSE NoRGB

\* --------------------------------------------------------------------------
\* Wire instructions.  Every instruction is a record of the same shape;
\* fields an instruction does not have are empty.
\* --------------------------------------------------------------------------
NoRange == <<>>

Instr(kind, obj_id, text, style, range, fields, url, rgb) ==
    [kind |-> kind, objectId |-> obj_id, text |-> text, style |-> style,
     range |-> range, fields |-> fields, url |-> url, rgb |-> rgb]

DeleteText(obj_id) ==
    Instr("deleteText", obj_id, <<>>, "", NoRange, "", <<>>, NoRGB)

InsertText(obj_id, text) ==
    Instr("insertText", obj_id, text, "", NoRange, "", <<>>, NoRGB)

\* the base style of the run on the whole run, fields "*"
BaseStyle(obj_id, style) ==
    Instr("updateTextStyle", obj_id, <<>>, style, NoRange, "*", <<>>, NoRGB)

BoldStyle(obj_id, r) ==
    Instr("updateTextStyle", obj_id, <<>>, "bold", <<r[1], r[2]>>, "bold", <<>>, NoRGB)

ItalicStyle(obj_id, r) ==
    Instr("updateTextStyle", obj_id, <<>>, "italic", <<r[1], r[2]>>, "italic", <<>>, NoRGB)

\* r = (start_index, end_index, url, color)
LinkStyle(obj_id, r) ==
    LET color == r[4]
        rgb == IF color # NoColor /\ color # <<>> THEN ColorRGB(color) ELSE NoRGB
        \* `if rgb:` is true of every dict the palette or the hex branch builds
    IN  Instr("updateTextStyle", obj_id, <<>>, "link", <<r[1], r[2]>>,
              IF rgb # NoRGB THEN "link,foregroundColor" ELSE "link", r[3], rgb)

\* --------------------------------------------------------------------------
\* TextBlock._fill
\* --------------------------------------------------------------------------
\* variant of the three loops with the italic loop ahead of the bold loop
RangeRequestsItalicFirst(obj_id, bold_ranges, italic_ranges, link_ranges) ==
    [k \in 1..Len(italic_ranges) |-> ItalicStyle(obj_id, italic_ranges[k])]
    \o [k \in 1..Len(bold_ranges) |-> BoldStyle(obj_id, bold_ranges[k])]
    \o [k \in 1..Len(link_ranges) |-> LinkStyle(obj_id, link_ranges[k])]

\* the requests after delete / insert / base style: one per bold range, then
\* one per italic range, then one per link range
RangeRequests(obj_id, bold_ranges, italic_ranges, link_ranges) ==
    [k \in 1..Len(bold_ranges) |-> BoldStyle(obj_id, bold_ranges[k])]
    \o [k \in 1..Len(italic_ranges) |-> ItalicStyle(obj_id, italic_ranges[k])]
    \o [k \in 1..Len(link_ranges) |-> LinkStyle(obj_id, link_ranges[k])]

\* the outcome of a call: raised, or the list of requests; the results of the
\* scan are kept next to it for the statements about the parser
Fill(block, new_text) ==
    IF has_formatting(new_text)
    THEN LET st == Scan(new_text, ScanInit)
             clean_text == st.text_parts
         IN  [ raised |-> st.raised,
               formatted |-> TRUE,
               clean_text |-> clean_text,
               bold_ranges |-> st.bold_ranges,
               italic_ranges |-> st.italic_ranges,
               link_ranges |-> st.link_ranges,
               requests |->
                 IF st.raised THEN <<>>
                 ELSE <<DeleteText(block.obj_id), InsertText(block.obj_id, clean_text),
                        BaseStyle(block.obj_id, block.style)>>
                      \o RangeRequests(block.obj_id, st.bold_ranges, st.italic_ranges,
                                       st.link_ranges) ]
    ELSE [ raised |-> FALSE,
           formatted |-> FALSE,
           clean_text |-> new_text,
           bold_ranges |-> <<>>, italic_ranges |-> <<>>, link_ranges |-> <<>>,
           requests |-> <<DeleteText(block.obj_id), InsertText(block.obj_id, new_text),
                          BaseStyle(block.obj_id, block.style)>> ]

\* --------------------------------------------------------------------------
\* The values handed to _fill: concatenations of markup fragments
\* --------------------------------------------------------------------------
Chars(str) ==
    CASE str = "x" -> <<"x">>
      [] str = "<b>" -> TagB
      [] str = "</b>" -> TagBEnd
      [] str = "<i>" -> TagI
      [] str = "</i>" -> TagIEnd
      [] str = "</a>" -> TagAEnd
      [] str = "<a href='u'>" ->
            <<"<","a"," ","h","r","e","f","=","'","u","'",">">>
      [] str = "<a href='u' color='red'>" ->
            <<"<","a"," ","h","r","e","f","=","'","u","'"," ",
              "c","o","l","o","r","=","'","r","e","d","'",">">>
      [] str = "<a" -> <<"<","a">>
      [] str = "<" -> <<"<">>
      [] str = "<a>" -> <<"<","a",">">>
      [] str = "<a href=" -> <<"<","a"," ","h","r","e","f","=">>
      [] str = "<a href=u>" -> <<"<","a"," ","h","r","e","f","=","u",">">>
      [] str = "<a href='u'" -> <<"<","a"," ","h","r","e","f","=","'","u","'">>
      [] str = "<a href='u' color=red>" ->
            <<"<","a"," ","h","r","e","f","=","'","u","'"," ",
              "c","o","l","o","r","=","r","e","d",">">>

\* text, the bold / italic tags and the link closer
PlainFrags == {"x", "<b>", "</b>", "<i>", "</i>", "</a>"}

\* well-formed link openers
LinkFrags == {"<a href='u'>", "<a href='u' color='red'>"}

\* malformed link openers: no href, href= at the end of the value, href quote
\* missing, closing > missing, colour quote missing
BadLinkFrags == {"<a", "<a href=", "<a href=u>", "<a href='u'", "<a href='u' color=red>"}

Frags == PlainFrags \cup LinkFrags \cup BadLinkFrags

TagFrags == Frags \ {"x"}

NumLinkFrags(parts) ==
    Cardinality({k \in 1..Len(parts) : parts[k] \in LinkFrags \cup BadLinkFrags})

Inputs ==
    {parts \in UNION {[1..n -> Frags] : n \in 0..MaxFrags} :
        NumLinkFrags(parts) <= MaxLinkFrags}

\* text, a `<` of its own, an `<a>` without attributes, the bold tags and a
\* well-formed link
AngleFrags == {"x", "<", "<a>", "<b>", "</b>", "<a href='u'>", "</a>"}

AngleInputs == UNION {[1..n -> AngleFrags] : n \in 0..MaxFrags}

\* text and the bold / italic tags
NestFrags == {"x", "<b>", "</b>", "<i>", "</i>"}

\* well-nested markup: every closing tag closes the element opened last (the
\* tags pending are `open`), and no element is left open
RECURSIVE WellNested(_, _)
WellNested(parts, open) ==
    IF parts = <<>> THEN open = <<>>
    ELSE IF Head(parts) = "x" THEN WellNested(Tail(parts), open)
    ELSE IF Head(parts) \in {"<b>", "<i>"}
    THEN WellNested(Tail(parts), Push(open, Head(parts)))
    ELSE /\ open # <<>>
         /\ Head(parts) = (IF Top(open) = "<b>" THEN "</b>" ELSE "</i>")
         /\ WellNested(Tail(parts), Pop(open))

\* the well-nested values over <b>...</b> and <i>...</i>
NestInputs ==
    {parts \in UNION {[1..n -> NestFrags] : n \in 0..MaxNest} : WellNested(parts, <<>>)}

Text(parts) == Concat([k \in 1..Len(parts) |-> Chars(parts[k])])

\* links of a value whose links carry a color attribute
MaxColorLinks == 2

\* values of the color attribute: palette names, #RRGGBB values, and values
\* that are neither
Colors ==
    { <<"r","e","d">>, <<"G","r","e","y">>, <<"#","0","0","A","A","0","0">>,
      <<"#","f","f","f","f","f","f">>, <<"#","G","G","G","G","G","G">>,
      <<"#","-","1","0","0","0","0">>, <<"#","0","0","0","0","+","f">>,
      <<"#","1","2","3","4","5">>, <<"n","o","p","e">>, <<" ","r","e","d">>, <<>> }

\* <a href='u' color='...'>
ColorLink(color) ==
    <<"<","a"," ","h","r","e","f","=","'","u","'"," ","c","o","l","o","r","=","'">>
    \o color \o <<"'", ">">>

ColorInputs == UNION {[1..n -> Colors] : n \in 1..MaxColorLinks}

\* x<a href='u' color='...'>x</a> for every colour of `colors`
ColorText(colors) ==
    Concat([k \in 1..Len(colors) |-> <<"x">> \o ColorLink(colors[k]) \o <<"x">> \o TagAEnd])

\* the text run the fill is applied to (obj_id, text, style of TextBlock.__init__)
TheBlock == [obj_id |-> "t1", text |-> <<"T","i","t","l","e">>, style |-> "style1"]

\* --------------------------------------------------------------------------
\* TextBlock.match, TextBlock._replace
\* --------------------------------------------------------------------------
\* variant of match that tests the length of the query only
matchLength(block, query) == Len(query) <= Len(block.text)

\* `query in self.text`
match(block, query) == Contains(block.text, query)

\* str.replace(old, new): non-overlapping occurrences, left to right; an empty
\* `old` matches before every character and at the end
RECURSIVE StrReplace(_, _, _)
StrReplace(str, old, new) ==
    IF old = <<>>
    THEN IF str = <<>> THEN new ELSE new \o <<Head(str)>> \o StrReplace(Tail(str), old, new)
    ELSE IF Len(str) < Len(old) THEN str
    ELSE IF StartsAt(str, old, 0)
    THEN new \o StrReplace(SubSeq(str, Len(old) + 1, Len(str)), old, new)
    ELSE <<Head(str)>> \o StrReplace(Tail(str), old, new)

\* TextBlock._replace
Replace(block, key, value) == Fill(block, StrReplace(block.text, key, value))

\* --------------------------------------------------------------------------
\* Slide.parse
\* --------------------------------------------------------------------------
Whitespace == {" ", "\n", "\t"}

\* str.strip()
RECURSIVE LStrip(_)
LStrip(str) == IF str # <<>> /\ Head(str) \in Whitespace THEN LStrip(Tail(str)) ELSE str

RECURSIVE RStrip(_)
RStrip(str) ==
    IF str # <<>> /\ str[Len(str)] \in Whitespace
    THEN RStrip(SubSeq(str, 1, Len(str) - 1)) ELSE str

Strip(str) == RStrip(LStrip(str))

NoTitle == <<"None">>

\* the text runs one shape contributes (the `for item in text` loop)
RECURSIVE ParseTextElements(_, _)
ParseTextElements(obj_id, items) ==
    IF items = <<>> THEN <<>>
    ELSE LET item == Head(items)
             content == Strip(item.content)
         IN  (IF item.textRun /\ Len(content) > 1
              THEN <<[obj_id |-> obj_id, text |-> content, style |-> item.style]>>
              ELSE <<>>)
             \o ParseTextElements(obj_id, Tail(items))

\* variant of the loop with `if` in place of each `elif`: every rule whose
\* field is there is applied
RECURSIVE ParseEveryRule(_)
ParseEveryRule(pageElements) ==
    IF pageElements = <<>> THEN [text |-> <<>>, img |-> <<>>, chart |-> <<>>]
    ELSE LET obj == Head(pageElements)
             rest == ParseEveryRule(Tail(pageElements))
         IN  [text |-> (IF obj.shape /\ obj.text
                        THEN ParseTextElements(obj.objectId, obj.textElements)
                        ELSE <<>>) \o rest.text,
              img |-> (IF obj.image
                       THEN <<[obj_id |-> obj.objectId,
                               title |-> IF obj.hasDescription
                                         THEN obj.description ELSE NoTitle]>>
                       ELSE <<>>) \o rest.img,
              chart |-> (IF obj.sheetsChart
                         THEN <<[obj_id |-> obj.objectId, size |-> obj.size,
                                 transform |-> obj.transform]>>
                         ELSE <<>>) \o rest.chart]

\* the `for obj in self.content.pageElements` loop: texts, imgs, charts
RECURSIVE Parse(_)
Parse(pageElements) ==
    IF pageElements = <<>> THEN [text |-> <<>>, img |-> <<>>, chart |-> <<>>]
    ELSE LET obj == Head(pageElements)
             rest == Parse(Tail(pageElements))
         IN  IF obj.shape /\ obj.text
             THEN [rest EXCEPT !.text = ParseTextElements(obj.objectId, obj.textElements) \o @]
             ELSE IF obj.image
             THEN [rest EXCEPT !.img = <<[obj_id |-> obj.objectId,
                                         title |-> IF obj.hasDescription
                                                   THEN obj.description ELSE NoTitle]>> \o @]
             ELSE IF obj.sheetsChart
             THEN [rest EXCEPT !.chart = <<[obj_id |-> obj.objectId, size |-> obj.size,
                                           transform |-> obj.transform]>> \o @]
             ELSE rest

\* --------------------------------------------------------------------------
\* Page contents the slides are built from
\* --------------------------------------------------------------------------
\* number of page elements of a page
MaxElems == 3

ObjectIds == <<"e1", "e2", "e3", "e4", "e5">>

Element(shape, text, textElements, image, hasDescription, description, sheetsChart) ==
    [objectId |-> "", shape |-> shape, text |-> text, textElements |-> textElements,
     image |-> image, hasDescription |-> hasDescription, description |-> description,
     sheetsChart |-> sheetsChart, size |-> <<>>, transform |-> <<>>]

TextRun(content, style) == [textRun |-> TRUE, content |-> content, style |-> style]

ParagraphMarker == [textRun |-> FALSE, content |-> <<>>, style |-> ""]

ShapeWith(textElements) == Element(TRUE, TRUE, textElements, FALSE, FALSE, <<>>, FALSE)

ElementKinds ==
    { ShapeWith(<<ParagraphMarker, TextRun(<<"a","b","\n">>, "s1")>>),
      ShapeWith(<<TextRun(<<"b","c">>, "s2")>>),
      ShapeWith(<<TextRun(<<" ","a","\n">>, "s1"), TextRun(<<"a","b","c">>, "s2")>>),
      Element(TRUE, FALSE, <<>>, FALSE, FALSE, <<>>, FALSE),
      Element(FALSE, FALSE, <<>>, TRUE, TRUE, <<"l","o","g","o">>, FALSE),
      Element(FALSE, FALSE, <<>>, TRUE, FALSE, <<>>, FALSE),
      Element(FALSE, FALSE, <<>>, FALSE, FALSE, <<>>, TRUE) }

\* object ids are unique within a page: the k-th element is ObjectIds[k]; it
\* has a size and a transform of its own
Numbered(kinds) ==
    [k \in 1..Len(kinds) |->
        [kinds[k] EXCEPT !.objectId = ObjectIds[k], !.size = <<"size", k>>,
                         !.transform = <<"transform", k>>]]

Pages == {Numbered(kinds) : kinds \in UNION {[1..n -> ElementKinds] : n \in 0..MaxElems}}

\* page elements that carry the fields of more than one rule of parse: a
\* shape with text that has an image or a sheetsChart field too, a shape
\* without text that has an image field, an image with a sheetsChart field
MixedKinds ==
    { ShapeWith(<<TextRun(<<" ","a","\n">>, "s1"), TextRun(<<"a","b","c">>, "s2")>>),
      Element(TRUE, TRUE, <<TextRun(<<"b","c">>, "s2")>>, TRUE, TRUE, <<"l","o","g","o">>, FALSE),
      Element(TRUE, TRUE, <<ParagraphMarker, TextRun(<<"b","\n">>, "s1")>>, FALSE, FALSE, <<>>, TRUE),
      Element(TRUE, FALSE, <<>>, TRUE, FALSE, <<>>, FALSE),
      Element(FALSE, FALSE, <<>>, TRUE, TRUE, <<"l","o","g","o">>, TRUE),
      Element(FALSE, FALSE, <<>>, FALSE, FALSE, <<>>, TRUE),
      Element(FALSE, FALSE, <<>>, FALSE, FALSE, <<>>, FALSE) }

MixedPages == {Numbered(kinds) : kinds \in UNION {[1..n -> MixedKinds] : n \in 0..MaxElems}}

\* the page the batching scenarios run on: two text runs and an image
BatchPage ==
    Numbered(<<ShapeWith(<<ParagraphMarker, TextRun(<<"a","b","\n">>, "s1")>>),
               ShapeWith(<<TextRun(<<"b","c">>, "s2")>>),
               Element(FALSE, FALSE, <<>>, TRUE, TRUE, <<"l","o","g","o">>, FALSE)>>)

\* a page with a text run, an image and two charts
ChartPage ==
    Numbered(<<ShapeWith(<<TextRun(<<"b","c">>, "s2")>>),
               Element(FALSE, FALSE, <<>>, TRUE, FALSE, <<>>, FALSE),
               Element(FALSE, FALSE, <<>>, FALSE, FALSE, <<>>, TRUE),
               Element(FALSE, FALSE, <<>>, FALSE, FALSE, <<>>, TRUE)>>)

\* queries of find / find_all / slide[query]
Queries == {<<"b">>, <<"c">>, <<"z">>}

\* values of change_text / replace on a collection
TextValues == {<<"H","i">>, TagB \o <<"H","i">> \o TagBEnd}

\* values of slide[query] = value
ItemValues == {TagB \o <<"H","i">> \o TagBEnd}

DocId == "doc1"

\* --------------------------------------------------------------------------
\* State
\* --------------------------------------------------------------------------
\* BatchUpdate objects created by slide.batch_update()
NumBatchUpdates == 2
\* edits buffered in the lists of the BatchUpdate objects, all lists together
MaxEdits == 2

BatchUpdates == 1..NumBatchUpdates

\* _batch_requests is None
None == 0

VARIABLES
    fill_pc,        \* "idle" before the call of _fill, "returned" / "raised" after
    fill_parts,     \* the fragments the value was assembled from
    new_text,       \* the value: str(value) of _fill
    fill_result,    \* outcome of _fill(new_text) on TheBlock
    content,        \* Slide.content.pageElements
    slide_batch,    \* Slide._batch_requests: None or the BatchUpdate whose list it is
    img_batch,      \* slide.img._batch_requests
    image_batch,    \* slide.img.elements[k]._batch_requests
    text_batch,     \* slide.text[k]._batch_requests
    requests,       \* BatchUpdate.requests of every BatchUpdate object
    scope_stack,    \* BatchUpdate objects entered and not yet exited, innermost last
    blocks,         \* the TextBlocks the caller got from the last find / find_all
    appended,       \* per BatchUpdate: instructions appended since its last __enter__
    last,           \* the last operation and what it produced
    io,             \* network and storage calls made by the last operation
    slide_text,     \* Slide.text: the TextBlock objects of the slide
    pages,          \* Slides.pages: the pages of the presentation fetched
    slide_page,     \* Slide.page of the slide handle
    sheets          \* Sheets.sheets as loaded, and the sheets the service holds

fillVars == <<fill_pc, fill_parts, new_text, fill_result>>

deckVars == <<slide_text, pages, slide_page, sheets>>

slideVars == <<content, slide_batch, img_batch, image_batch, text_batch, requests,
               scope_stack, blocks, appended, last, io, deckVars>>

vars == <<fill_pc, fill_parts, new_text, fill_result,
          content, slide_batch, img_batch, image_batch, text_batch, requests,
          scope_stack, blocks, appended, last, io,
          slide_text, pages, slide_page, sheets>>

\* the handles of the slide: self.text, self.img.elements, self.chart.elements
SlideText == slide_text
SlideImg == Parse(content).img
SlideChart == Parse(content).chart

\* find() returned None
NoBlocks == [isNone |-> TRUE, doc_id |-> DocId, elements |-> <<>>, obj_ids |-> {}, batch |-> None]

\* TextBlocks(doc_id) with add(block) applied to each of `elements`
TextBlocksOf(elements) ==
    [isNone |-> FALSE, doc_id |-> DocId, elements |-> elements,
     obj_ids |-> {elements[k].obj_id : k \in 1..Len(elements)}, batch |-> None]

NoQuery == <<"None">>

\* no exception reached the caller
NoError == "None"

\* the outcome of an operation: the exception that reached the caller, the
\* instructions produced, the value returned
Outcome(op, error, produced, scope, query, value) ==
    [op |-> op, raised |-> error # NoError, error |-> error, produced |-> produced,
     scope |-> scope, query |-> query, value |-> value]

\* `raised`: execute() of a service call raised its HttpError, which nothing
\* on the way to the caller catches
LastOp(op, raised, produced, scope, query) ==
    Outcome(op, IF raised THEN "HttpError" ELSE NoError, produced, scope, query, "None")

\* the operation ended with `error` before it produced anything
Raised(op, error) == Outcome(op, error, <<>>, None, NoQuery, "None")

\* an operation of a BatchUpdate object
ScopeOp(op, raised, produced, scope) == LastOp(op, raised, produced, scope, NoQuery)

\* find / find_all / slide[query] = value
QueryOp(op, raised, produced, query) == LastOp(op, raised, produced, None, query)

Op(op, raised, produced) == LastOp(op, raised, produced, None, NoQuery)

BatchUpdateCall(doc, reqs, ok) ==
    [type |-> "batchUpdate", doc |-> doc, requests |-> reqs, file |-> <<>>, ok |-> ok]

Upload(file) ==
    [type |-> "upload", doc |-> "", requests |-> <<>>, file |-> file, ok |-> TRUE]

NoResult == Fill(TheBlock, <<>>)

FillInit ==
    /\ fill_pc = "idle"
    /\ fill_parts = <<>>
    /\ new_text = <<>>
    /\ fill_result = NoResult

\* a value assembled from fragments of `inputs` is about to be filled in
FillInput(inputs) ==
    /\ fill_pc = "idle"
    /\ fill_parts \in inputs
    /\ new_text = Text(fill_parts)
    /\ fill_result = NoResult

\* text_block._fill(new_text)
FillCall ==
    /\ fill_pc = "idle"
    /\ fill_result' = Fill(TheBlock, new_text)
    /\ fill_pc' = IF fill_result'.raised THEN "raised" ELSE "returned"
    /\ UNCHANGED <<fill_parts, new_text>>
    /\ UNCHANGED slideVars

\* --------------------------------------------------------------------------
\* Slide.find, Slide.find_all
\* --------------------------------------------------------------------------
\* indices of the text runs of the slide that match the query, in page order
Matches(text, query) == {k \in 1..Len(text) : match(text[k], query)}

\* variant of the loop that keeps the last match instead of returning at the
\* first
findLast(text, query) ==
    IF Matches(text, query) = {} THEN NoBlocks
    ELSE TextBlocksOf(<<text[CHOOSE k \in Matches(text, query) :
                                \A j \in Matches(text, query) : j <= k]>>)

\* Slide.find: the loop returns at the first match; None when the loop ends
find(text, query) ==
    IF Matches(text, query) = {} THEN NoBlocks
    ELSE TextBlocksOf(<<text[Min(Matches(text, query))]>>)

RECURSIVE Matching(_, _)
Matching(text, query) ==
    IF text = <<>> THEN <<>>
    ELSE (IF match(Head(text), query) THEN <<Head(text)>> ELSE <<>>)
         \o Matching(Tail(text), query)

\* Slide.find_all: every match is added, in the order of self.text
find_all(text, query) == TextBlocksOf(Matching(text, query))

\* --------------------------------------------------------------------------
\* _execute_requests of TextBlocks and Image, and the text edits
\* --------------------------------------------------------------------------
\* requests of change_text / replace: the concatenation over the elements
RECURSIVE Requests(_, _, _, _)
Requests(elements, isReplace, key, value) ==
    IF elements = <<>> THEN <<>>
    ELSE (IF isReplace THEN Replace(Head(elements), key, value)
                       ELSE Fill(Head(elements), value)).requests
         \o Requests(Tail(elements), isReplace, key, value)

\* an element of TextBlocks.elements is a TextBlock; `blocks += other` puts
\* TextBlocks objects there as well
IsTextBlock(element) == "text" \in DOMAIN element

\* the exception that ends the `for element in self.elements` loop of
\* change_text / replace: a TextBlocks object has no _fill and no _replace,
\* _fill raises on new_text[href_start + 5]
RECURSIVE EditError(_, _, _, _)
EditError(elements, isReplace, key, value) ==
    IF elements = <<>> THEN NoError
    ELSE IF ~IsTextBlock(Head(elements)) THEN "AttributeError"
    ELSE IF (IF isReplace THEN Replace(Head(elements), key, value)
                          ELSE Fill(Head(elements), value)).raised THEN "IndexError"
    ELSE EditError(Tail(elements), isReplace, key, value)

\* some element's _fill or _replace raised
Raises(elements, isReplace, key, value) ==
    EditError(elements, isReplace, key, value) # NoError

\* every edit starts with a deleteText (one per text run) or a replaceImage
NumEdits(reqs) ==
    Cardinality({k \in 1..Len(reqs) : reqs[k].kind \in {"deleteText", "replaceImage"}})

RECURSIVE Buffered(_)
Buffered(B) ==
    IF B = {} THEN 0
    ELSE LET b == CHOOSE x \in B : TRUE IN NumEdits(requests[b]) + Buffered(B \ {b})

\* the lists take one more edit
Room == Buffered(BatchUpdates) < MaxEdits

\* _execute_requests: extend the attached list, or one batchUpdate call that
\* succeeds or raises
Execute(batch, doc, reqs, op, uploads, query) ==
    IF batch # None
    THEN /\ Room
         /\ requests' = [requests EXCEPT ![batch] = @ \o reqs]
         /\ appended' = [appended EXCEPT ![batch] = @ \o reqs]
         /\ io' = uploads
         /\ last' = QueryOp(op, FALSE, reqs, query)
    ELSE /\ \E ok \in BOOLEAN :
              /\ io' = Append(uploads, BatchUpdateCall(doc, reqs, ok))
              /\ last' = QueryOp(op, ~ok, reqs, query)
         /\ UNCHANGED <<requests, appended>>

\* variant of _fill that stores the text it fills in
FilledStoring(block, value) == [block EXCEPT !.text = value]

\* the TextBlock after _fill(value): new_text is a local of _fill, and
\* _replace computes it with str.replace, which builds a new string; no
\* attribute of the handle is assigned
Filled(block, value) == block

\* self.text of the slide after change_text / replace went over `elements`,
\* which are TextBlock objects of the slide
AfterEdit(text, elements, isReplace, key, value) ==
    [k \in 1..Len(text) |->
        IF \E j \in 1..Len(elements) : elements[j] = text[k]
        THEN Filled(text[k], IF isReplace THEN StrReplace(text[k].text, key, value)
                                          ELSE value)
        ELSE text[k]]

\* change_text / replace of a collection whose _batch_requests is `batch`
TextEdit(coll, batch, isReplace, key, value, op, query) ==
    /\ slide_text' = AfterEdit(slide_text, coll.elements, isReplace, key, value)
    /\ IF Raises(coll.elements, isReplace, key, value)
       THEN /\ last' = Raised(op, EditError(coll.elements, isReplace, key, value))
            /\ io' = <<>>
            /\ UNCHANGED <<requests, appended>>
       ELSE Execute(batch, coll.doc_id, Requests(coll.elements, isReplace, key, value),
                    op, <<>>, query)

\* blocks = slide.find(query)   (also slide[query])
CallFind ==
    \E query \in Queries :
        /\ blocks' = find(SlideText, query)
        /\ last' = QueryOp("find", FALSE, <<>>, query)
        /\ io' = <<>>
        /\ UNCHANGED <<content, slide_batch, img_batch, image_batch, text_batch,
                       requests, scope_stack, appended>>
        /\ UNCHANGED <<fillVars, deckVars>>

\* blocks = slide.find_all(query)
CallFindAll ==
    \E query \in Queries :
        /\ blocks' = find_all(SlideText, query)
        /\ last' = QueryOp("find_all", FALSE, <<>>, query)
        /\ io' = <<>>
        /\ UNCHANGED <<content, slide_batch, img_batch, image_batch, text_batch,
                       requests, scope_stack, appended>>
        /\ UNCHANGED <<fillVars, deckVars>>

\* blocks.change_text(value)   (also blocks.text = value)
ChangeText ==
    /\ ~blocks.isNone
    /\ \E value \in TextValues :
         TextEdit(blocks, blocks.batch, FALSE, <<>>, value, "change_text", NoQuery)
    /\ UNCHANGED <<content, slide_batch, img_batch, image_batch, text_batch,
                   scope_stack, blocks>>
    /\ UNCHANGED <<fillVars, pages, slide_page, sheets>>

\* blocks.replace(key, value)
ReplaceText ==
    /\ ~blocks.isNone
    /\ \E key \in Queries, value \in TextValues :
         TextEdit(blocks, blocks.batch, TRUE, key, value, "replace", NoQuery)
    /\ UNCHANGED <<content, slide_batch, img_batch, image_batch, text_batch,
                   scope_stack, blocks>>
    /\ UNCHANGED <<fillVars, pages, slide_page, sheets>>

\* elements of a collection the caller builds with add and +=
MaxBlocks == 3

\* blocks.add(block): no look at obj_ids before the append
add(coll, block) ==
    [coll EXCEPT !.elements = Append(@, block), !.obj_ids = @ \union {block.obj_id}]

\* the `for element in block.elements` loop of __iadd__: an element whose
\* obj_id is new appends `block`, the collection itself
RECURSIVE iaddAll(_, _, _)
iaddAll(coll, block, elements) ==
    IF elements = <<>> THEN coll
    ELSE IF Head(elements).obj_id \in coll.obj_ids
    THEN iaddAll(coll, block, Tail(elements))
    ELSE iaddAll([coll EXCEPT !.elements = Append(@, block),
                              !.obj_ids = @ \union {Head(elements).obj_id}],
                 block, Tail(elements))

\* TextBlocks.__iadd__: a TextBlock is added, a TextBlocks is looped over,
\* anything else (None) leaves the collection as it is
iadd(coll, block) ==
    IF IsTextBlock(block) THEN add(coll, block)
    ELSE IF block.isNone THEN coll
    ELSE iaddAll(coll, block, block.elements)

\* blocks.add(slide.text[k])
CallAdd ==
    /\ \E k \in 1..Len(SlideText) :
         IF blocks.isNone
         THEN /\ last' = Raised("add", "AttributeError")
              /\ UNCHANGED blocks
         ELSE /\ Len(blocks.elements) < MaxBlocks
              /\ blocks' = add(blocks, SlideText[k])
              /\ last' = Op("add", FALSE, <<>>)
    /\ io' = <<>>
    /\ UNCHANGED <<content, slide_batch, img_batch, image_batch, text_batch,
                   requests, scope_stack, appended>>
    /\ UNCHANGED <<fillVars, deckVars>>

\* blocks += slide.text[k], blocks += slide.find(query),
\* blocks += slide.find_all(query)
CallIAdd ==
    /\ \E block \in {SlideText[k] : k \in 1..Len(SlideText)}
                    \union {find(SlideText, query) : query \in Queries}
                    \union {find_all(SlideText, query) : query \in Queries} :
         IF blocks.isNone
         THEN \* None has no __iadd__ and no __add__
              /\ last' = Raised("iadd", "TypeError")
              /\ UNCHANGED blocks
         ELSE /\ Len(iadd(blocks, block).elements) <= MaxBlocks
              /\ blocks' = iadd(blocks, block)
              /\ last' = Op("iadd", FALSE, <<>>)
    /\ io' = <<>>
    /\ UNCHANGED <<content, slide_batch, img_batch, image_batch, text_batch,
                   requests, scope_stack, appended>>
    /\ UNCHANGED <<fillVars, deckVars>>

\* the object `element` after the attribute `text` of the TextBlock `old`
\* became that of `new`: the collections hold references to the TextBlock
\* objects of slide.text
Assigned(element, old, new) ==
    IF IsTextBlock(element) THEN (IF element = old THEN new ELSE element)
    ELSE [element EXCEPT !.elements =
             [j \in DOMAIN @ |-> IF @[j] = old THEN new ELSE @[j]]]

\* slide.text[k].text = value: TextBlock defines no property and no
\* __setattr__, the assignment stores the attribute and nothing else
SetText ==
    /\ \E k \in 1..Len(SlideText), value \in TextValues :
         /\ slide_text' = [slide_text EXCEPT ![k].text = value]
         /\ blocks' = [blocks EXCEPT !.elements =
                          [j \in DOMAIN @ |->
                              Assigned(@[j], SlideText[k],
                                       [SlideText[k] EXCEPT !.text = value])]]
         /\ last' = [Op("text", FALSE, <<>>) EXCEPT !.value = k]
    /\ io' = <<>>
    /\ UNCHANGED <<content, slide_batch, img_batch, image_batch, text_batch,
                   requests, scope_stack, appended>>
    /\ UNCHANGED <<fillVars, pages, slide_page, sheets>>

\* slide[query] = value
SetItem ==
    \E query \in Queries, value \in ItemValues :
        LET found == find(SlideText, query) IN
        IF found.isNone
        THEN /\ last' = QueryOp("setitem", FALSE, <<>>, query)
             /\ io' = <<>>
             /\ UNCHANGED <<content, slide_batch, img_batch, image_batch, text_batch,
                            requests, scope_stack, blocks, appended>>
             /\ UNCHANGED <<fillVars, deckVars>>
        ELSE \* blocks._batch_requests = self._batch_requests, propagated by
             \* TextBlocks.__setattr__ to the block found
             /\ text_batch' = [text_batch EXCEPT ![Min(Matches(SlideText, query))] = slide_batch]
             /\ TextEdit(found, slide_batch, FALSE, <<>>, value, "setitem", query)
             /\ UNCHANGED <<content, slide_batch, img_batch, image_batch,
                            scope_stack, blocks>>
             /\ UNCHANGED <<fillVars, pages, slide_page, sheets>>

\* --------------------------------------------------------------------------
\* Images.__setitem__, Image.replace_image
\* --------------------------------------------------------------------------
Http == <<"h", "t", "t", "p">>

NoLink == <<"None">>

ReplaceImage(obj_id, url) ==
    Instr("replaceImage", obj_id, <<>>, "CENTER_INSIDE", NoRange, "", url, NoRGB)

\* imageProperties.link is {"url": link_url}, or None when link_url is falsy
UpdateImageProperties(obj_id, link_url) ==
    Instr("updateImageProperties", obj_id, <<>>, "", NoRange, "link",
          IF link_url # <<>> /\ link_url # NoLink THEN link_url ELSE NoLink, NoRGB)

\* value.split("/")[-1]
RECURSIVE FileName(_)
FileName(path) ==
    IF Contains(path, <<"/">>)
    THEN FileName(SubSeq(path, StrFind(path, <<"/">>, 0) + 2, Len(path)))
    ELSE path

\* blob.generate_signed_url(expire_in) of the blob uploaded for `path`
SignedUrl(path) == <<"signed:">> \o FileName(path)

\* the values assigned to slide.img[key]: a string, or an (image, link) tuple
ImageValue(isTuple, image, link_url) ==
    [isTuple |-> isTuple, image |-> image, link_url |-> link_url]

ImageValues ==
    { ImageValue(FALSE, Http \o <<":", "y">>, NoLink),
      ImageValue(TRUE, <<"d", "/", "p">>, <<>>) }

\* a url and a file, each as a string and in a pair with a link
AllImageValues ==
    { ImageValue(isTuple, image, IF isTuple THEN link_url ELSE NoLink) :
        isTuple \in BOOLEAN,
        image \in {Http \o <<":", "y">>, <<"d", "/", "p">>},
        link_url \in {<<"l">>} }

\* variant that uploads nothing
replace_image_no_upload(value) == <<>>

\* storage calls of replace_image, made before the request is built
replace_image_uploads(value) ==
    IF StartsAt(value.image, Http, 0) THEN <<>> ELSE <<Upload(value.image)>>

\* requests of replace_image
replace_image(image, value) ==
    <<ReplaceImage(image.obj_id,
                   IF StartsAt(value.image, Http, 0) THEN value.image
                   ELSE SignedUrl(value.image))>>
    \o (IF value.isTuple THEN <<UpdateImageProperties(image.obj_id, value.link_url)>>
        ELSE <<>>)

\* Images.title_map: the last image added under a title wins
HasTitle(img, title) == \E k \in 1..Len(img) : img[k].title = title /\ title # <<>>

TitleIndex(img, title) ==
    CHOOSE k \in 1..Len(img) :
        /\ img[k].title = title
        /\ \A n \in 1..Len(img) : img[n].title = title => n <= k

ImageTitles == {<<"l","o","g","o">>, <<"n","o">>}

\* slide.img[key] = value, key an index or a title
SetImageOf(values) ==
    /\ \E value \in values :
        \/ \E k \in 1..Len(SlideImg) :
              Execute(image_batch[k], DocId, replace_image(SlideImg[k], value),
                      "img", replace_image_uploads(value), value.image)
        \/ \E title \in ImageTitles :
              IF HasTitle(SlideImg, title)
              THEN LET k == TitleIndex(SlideImg, title) IN
                   Execute(image_batch[k], DocId, replace_image(SlideImg[k], value),
                           "img", replace_image_uploads(value), value.image)
              ELSE \* KeyError
                   /\ last' = Raised("img", "KeyError")
                   /\ io' = <<>>
                   /\ UNCHANGED <<requests, appended>>
    /\ UNCHANGED <<content, slide_batch, img_batch, image_batch, text_batch,
                   scope_stack, blocks>>
    /\ UNCHANGED <<fillVars, deckVars>>

\* the image replaces of the batching scenarios
SetImage == SetImageOf(ImageValues)

\* image replaces with every kind of value
SetAnyImage == SetImageOf(AllImageValues)

\* --------------------------------------------------------------------------
\* Charts.__setitem__, Chart.replace_chart
\* --------------------------------------------------------------------------
\* Slide.slide_id: the objectId of the page the slide was made from
SlideId == <<"page", slide_page>>

\* the charts of the spreadsheets: SheetChart(spreadsheet_id, chart_id)
SheetCharts ==
    {[spreadsheet_id |-> ss_id, chart_id |-> chart_id] :
        ss_id \in {"sheet1", "sheet2"}, chart_id \in {7, 8}}

DeleteObject(obj_id) == [kind |-> "deleteObject", objectId |-> obj_id]

CreateSheetsChart(chart, slide_id, sheet_chart) ==
    [kind |-> "createSheetsChart", spreadsheetId |-> sheet_chart.spreadsheet_id,
     chartId |-> sheet_chart.chart_id, objectId |-> chart.obj_id, linkingMode |-> "LINKED",
     size |-> chart.size, transform |-> chart.transform, pageObjectId |-> slide_id]

RefreshSheetsChart(obj_id) == [kind |-> "refreshSheetsChart", objectId |-> obj_id]

\* variant that creates the new chart ahead of the deletion of the old one
replace_chart_create_first(chart, slide_id, sheet_chart) ==
    <<CreateSheetsChart(chart, slide_id, sheet_chart), DeleteObject(chart.obj_id),
      RefreshSheetsChart(chart.obj_id)>>

\* requests of Chart.replace_chart
replace_chart(chart, slide_id, sheet_chart) ==
    <<DeleteObject(chart.obj_id), CreateSheetsChart(chart, slide_id, sheet_chart),
      RefreshSheetsChart(chart.obj_id)>>

\* slide.chart[key] = sheet_chart: the chart has no _batch_requests, the call
\* is made at once; a key beyond the list is an IndexError
SetChart ==
    /\ \E key \in 0..Len(SlideChart), sheet_chart \in SheetCharts :
         IF key >= Len(SlideChart)
         THEN /\ last' = Outcome("chart", "IndexError", <<>>, None, <<key>>, sheet_chart)
              /\ io' = <<>>
         ELSE \E ok \in BOOLEAN :
                LET reqs == replace_chart(SlideChart[key + 1], SlideId, sheet_chart) IN
                /\ io' = <<BatchUpdateCall(DocId, reqs, ok)>>
                /\ last' = Outcome("chart", IF ok THEN NoError ELSE "HttpError", reqs,
                                   None, <<key>>, sheet_chart)
    /\ UNCHANGED <<content, slide_batch, img_batch, image_batch, text_batch,
                   requests, scope_stack, blocks, appended>>
    /\ UNCHANGED <<fillVars, deckVars>>

\* --------------------------------------------------------------------------
\* BatchUpdate
\* --------------------------------------------------------------------------
\* variant that keeps the list attached first: a list is attached only to a
\* slide that has none
AttachFirstWins(value) ==
    IF value # None /\ slide_batch # None
    THEN UNCHANGED <<slide_batch, img_batch, image_batch, text_batch>>
    ELSE /\ slide_batch' = value
         /\ img_batch' = value
         /\ image_batch' = [k \in DOMAIN image_batch |-> value]
         /\ text_batch' = [k \in DOMAIN text_batch |-> value]

\* Slide.__setattr__("_batch_requests", value) followed by the explicit
\* assignments of __enter__ / __exit__: the slide, slide.img, every image and
\* every text run get `value`
Attach(value) ==
    /\ slide_batch' = value
    /\ img_batch' = value
    /\ image_batch' = [k \in DOMAIN image_batch |-> value]
    /\ text_batch' = [k \in DOMAIN text_batch |-> value]

\* nothing of the slide refers to the BatchUpdate object any more
Unreferenced(b) ==
    /\ \A k \in 1..Len(scope_stack) : scope_stack[k] # b
    /\ slide_batch # b
    /\ img_batch # b
    /\ \A k \in DOMAIN image_batch : image_batch[k] # b
    /\ \A k \in DOMAIN text_batch : text_batch[k] # b
    /\ blocks.batch # b

\* slide.batch_update(): BatchUpdate.__init__ makes a new object, its list empty
NewBatchUpdate ==
    /\ \E b \in BatchUpdates :
         /\ Unreferenced(b)
         /\ requests[b] # <<>>
         /\ requests' = [requests EXCEPT ![b] = <<>>]
         /\ appended' = [appended EXCEPT ![b] = <<>>]
         /\ last' = ScopeOp("batch_update", FALSE, <<>>, b)
    /\ io' = <<>>
    /\ UNCHANGED <<content, slide_batch, img_batch, image_batch, text_batch,
                   scope_stack, blocks>>
    /\ UNCHANGED <<fillVars, deckVars>>

\* BatchUpdate.__enter__; an object is entered by one `with` at a time
Enter ==
    /\ \E b \in BatchUpdates :
         /\ \A k \in 1..Len(scope_stack) : scope_stack[k] # b
         /\ Attach(b)
         /\ scope_stack' = Append(scope_stack, b)
         /\ appended' = [appended EXCEPT ![b] = <<>>]
         /\ last' = ScopeOp("enter", FALSE, <<>>, b)
    /\ io' = <<>>
    /\ UNCHANGED <<content, requests, blocks>>
    /\ UNCHANGED <<fillVars, deckVars>>

\* `with slide.batch_update():` that is not inside another `with`
EnterOutermost == scope_stack = <<>> /\ Enter

\* `with slide.batch_update():`, the BatchUpdate object made by the call
EnterNew == Enter /\ requests[slide_batch'] = <<>>

\* `with slide.batch_update():` outside any other `with`, which is how the
\* README uses it
EnterFresh == scope_stack = <<>> /\ EnterNew

\* exceptions the body of a `with` ends with: the KeyError of an image title
\* that is not there, an error of the caller's own statements
BodyErrors == {"KeyError", "RuntimeError"}

\* variant in which __exit__ returns a true value: the exception of the body
\* is dropped
Swallowed(exc, ok) == IF ~ok THEN "HttpError" ELSE NoError

\* the exception that leaves the `with` statement: __exit__ returns None, so
\* the exception of the body (if any) goes on to the caller; an HttpError
\* raised by execute() inside __exit__ takes its place
Propagated(exc, ok) == IF ~ok THEN "HttpError" ELSE exc

\* BatchUpdate.__exit__(exc_type, exc_val, exc_tb) of the innermost `with`;
\* `exc` is the exception the body ended with, NoError when it ended normally.
\* The arguments are not looked at.
ExitWith(exc) ==
    /\ scope_stack # <<>>
    /\ LET b == Top(scope_stack) IN
       /\ scope_stack' = Pop(scope_stack)
       /\ IF requests[b] # <<>>
          THEN \E ok \in BOOLEAN :
                 /\ io' = <<BatchUpdateCall(DocId, requests[b], ok)>>
                 /\ last' = Outcome("exit", Propagated(exc, ok), <<>>, b, NoQuery, exc)
                 /\ IF ok THEN Attach(None)
                    ELSE \* execute() raised: the assignments after it are not reached
                         UNCHANGED <<slide_batch, img_batch, image_batch, text_batch>>
          ELSE /\ io' = <<>>
               /\ last' = Outcome("exit", Propagated(exc, TRUE), <<>>, b, NoQuery, exc)
               /\ Attach(None)
    /\ UNCHANGED <<content, requests, blocks, appended>>
    /\ UNCHANGED <<fillVars, deckVars>>

\* the body of the innermost `with` ended normally
Exit == ExitWith(NoError)

\* the body of the innermost `with` raised
ExitRaised == \E exc \in BodyErrors : ExitWith(exc)

\* slide.parse(): new TextBlock, Images and Image objects, none of them attached
Reparse ==
    /\ img_batch' = None
    /\ image_batch' = [k \in 1..Len(SlideImg) |-> None]
    /\ text_batch' = [k \in 1..Len(SlideText) |-> None]
    /\ slide_text' = Parse(content).text
    /\ last' = Op("parse", FALSE, <<>>)
    /\ io' = <<>>
    /\ UNCHANGED <<content, slide_batch, requests, scope_stack, blocks, appended>>
    /\ UNCHANGED <<fillVars, pages, slide_page, sheets>>

\* --------------------------------------------------------------------------
\* Slides
\* --------------------------------------------------------------------------
\* pages of a presentation
MaxPages == 2

\* the pages the presentations are made of
DeckPages ==
    { BatchPage,
      Numbered(<<ShapeWith(<<TextRun(<<"b","c">>, "s2")>>)>>),
      Numbered(<<>>) }

\* document.get("slides") of the presentations the service holds
Decks == UNION {[1..n -> DeckPages] : n \in 1..MaxPages}

\* answers of the service: done, access denied, no such document
Statuses == {200, 403, 404}

\* a call of presentations().get or files().delete and the status it ended with
ServiceCall(type, doc, status) ==
    [type |-> type, doc |-> doc, requests |-> <<>>, file |-> <<>>,
     ok |-> status = 200, status |-> status]

\* variant that indexes the list with the page number as given
getitemZeroBased(deck, page) ==
    IF page >= Len(deck) THEN [error |-> "IndexError", page |-> page, content |-> <<>>]
    ELSE [error |-> NoError, page |-> page, content |-> deck[page + 1]]

\* Slides.__getitem__: page 0 is refused before self.pages is indexed; the
\* list is indexed with page - 1
getitem(deck, page) ==
    IF page = 0 THEN [error |-> "KeyError", page |-> page, content |-> <<>>]
    ELSE IF page - 1 >= Len(deck)
    THEN [error |-> "IndexError", page |-> page, content |-> <<>>]
    ELSE [error |-> NoError, page |-> page, content |-> deck[(page - 1) + 1]]

\* slide = slides[page], outside the scopes of the slide held before
GetItem ==
    /\ scope_stack = <<>>
    /\ \E page \in 0..(MaxPages + 1) :
         IF getitem(pages, page).error # NoError
         THEN /\ last' = Outcome("getitem", getitem(pages, page).error, <<>>, None,
                                 <<page>>, "None")
              /\ UNCHANGED <<content, slide_text, slide_page, slide_batch, img_batch,
                             image_batch, text_batch>>
         ELSE \* Slide.__init__: nothing of the new slide is attached
              /\ content' = getitem(pages, page).content
              /\ slide_page' = getitem(pages, page).page
              /\ slide_text' = Parse(content').text
              /\ slide_batch' = None
              /\ img_batch' = None
              /\ image_batch' = [k \in 1..Len(Parse(content').img) |-> None]
              /\ text_batch' = [k \in 1..Len(Parse(content').text) |-> None]
              /\ last' = Outcome("getitem", NoError, <<>>, None, <<page>>, "Slide")
    /\ io' = <<>>
    /\ UNCHANGED <<requests, scope_stack, blocks, appended, pages, sheets>>
    /\ UNCHANGED fillVars

\* slides = Slides(doc_id): any HttpError of the fetch is wrapped
NewSlides ==
    /\ \E status \in Statuses :
         /\ io' = <<ServiceCall("get", DocId, status)>>
         /\ IF status = 200
            THEN /\ pages' \in Decks
                 /\ last' = Outcome("Slides", NoError, <<>>, None, NoQuery, "Slides")
            ELSE /\ UNCHANGED pages
                 /\ last' = Raised("Slides", "GoogleAuthorizationError")
    /\ UNCHANGED <<content, slide_batch, img_batch, image_batch, text_batch,
                   requests, scope_stack, blocks, appended>>
    /\ UNCHANGED <<fillVars, slide_text, slide_page, sheets>>

\* Slides.delete_by_id(doc_id)
DeleteById ==
    /\ \E status \in Statuses :
         /\ io' = <<ServiceCall("delete", DocId, status)>>
         /\ last' = IF status = 200
                    THEN Outcome("delete_by_id", NoError, <<>>, None, NoQuery, "True")
                    ELSE IF status = 404
                    THEN Raised("delete_by_id", "FileNotFoundError")
                    ELSE Raised("delete_by_id", "GoogleAuthorizationError")
    /\ UNCHANGED <<content, slide_batch, img_batch, image_batch, text_batch,
                   requests, scope_stack, blocks, appended>>
    /\ UNCHANGED <<fillVars, deckVars>>

\* --------------------------------------------------------------------------
\* Sheets
\* --------------------------------------------------------------------------
\* rows = max(rows, 1000), cols = max(cols, 26)
RowFloor == 1000
ColFloor == 26

SpreadsheetId == "sheet1"

\* the sheets of a spreadsheet just created
NewSpreadsheet == <<[title |-> "Sheet1", sheetId |-> 1]>>

SheetNames == {"Sheet1", "Data"}

\* x.strftime("%Y-%m-%d %H:%M:%S")
strftime(x) == <<"%Y-%m-%d %H:%M:%S", x>>

\* a dataframe of `rows` rows and `cols` columns with distinct headers; with
\* `dated` its first column is of dtype datetime64[ns]
DataFrame(rows, cols, dated) ==
    [columns |-> [j \in 1..cols |-> <<"c", j>>],
     dtype   |-> [j \in 1..cols |-> IF dated /\ j = 1 THEN "datetime64[ns]" ELSE "int64"],
     values  |-> [j \in 1..cols |-> [i \in 1..rows |-> 10 * i + j]],
     shape   |-> <<rows, cols>>]

DataFrames ==
    {DataFrame(rows, cols, dated) :
        rows \in {0, 2, RowFloor + 1}, cols \in {1, 2, ColFloor + 1}, dated \in BOOLEAN}

\* variant that asks for a grid of the size of the dataframe
AddSheetExact(name, df) ==
    [addSheet |-> [title |-> name, rowCount |-> df.shape[1], columnCount |-> df.shape[2],
                   tabColor |-> <<10, 3, 4>>]]

\* the addSheet request of Sheets.__setitem__ (tabColor in tenths)
AddSheet(name, df) ==
    [addSheet |-> [title |-> name, rowCount |-> Max2(df.shape[1], RowFloor),
                   columnCount |-> Max2(df.shape[2], ColFloor),
                   tabColor |-> <<10, 3, 4>>]]

\* the request of Sheet.clear
UpdateCells(sheetId) ==
    [updateCells |-> [range |-> [sheetId |-> sheetId], fields |-> "userEnteredValue"]]

\* Sheet.__setattr__("value", df): one entry per column, the header and then
\* the values of the column, those of a datetime64 column formatted
AppendBody(df) ==
    [majorDimension |-> "COLUMNS",
     values |-> [j \in 1..Len(df.columns) |->
                    <<df.columns[j]>> \o
                    (IF df.dtype[j] = "datetime64[ns]"
                     THEN [i \in 1..Len(df.values[j]) |-> strftime(df.values[j][i])]
                     ELSE df.values[j])]]

\* a call of the spreadsheet service
SheetsCall(type, reqs, range, body, ok) ==
    [type |-> type, doc |-> SpreadsheetId, requests |-> reqs, file |-> <<>>, ok |-> ok,
     range |-> range, body |-> body]

\* Sheets.__getitem__(name) finds a sheet of that title
HasSheet(list, name) == \E k \in 1..Len(list) : list[k].title = name

SheetId(list, name) ==
    list[CHOOSE k \in 1..Len(list) :
            list[k].title = name /\ \A n \in 1..(k - 1) : list[n].title # name].sheetId

\* the calls of sheets[name] = df when none of them raises: addSheet and the
\* reload only after NameError, then clear, then append
SetSheetCalls(list, service, name, df) ==
    (IF HasSheet(list, name) THEN <<>>
     ELSE <<SheetsCall("batchUpdate", <<AddSheet(name, df)>>, "", <<>>, TRUE),
            SheetsCall("get", <<>>, "", <<>>, TRUE)>>)
    \o <<SheetsCall("batchUpdate",
                    <<UpdateCells(IF HasSheet(list, name) THEN SheetId(list, name)
                                  ELSE Len(service) + 1)>>, "", <<>>, TRUE),
          SheetsCall("append", <<>>, name \o "!A:A", AppendBody(df), TRUE)>>

\* sheets[name] = df; execute() of the n-th call raises (n = 0: none does)
SetSheet ==
    /\ \E name \in SheetNames, df \in DataFrames :
         \E n \in 0..Len(SetSheetCalls(sheets.loaded, sheets.service, name, df)) :
           LET calls == SetSheetCalls(sheets.loaded, sheets.service, name, df)
               existed == HasSheet(sheets.loaded, name)
               added == ~existed /\ (n = 0 \/ n > 1)
               service == IF added
                          THEN Append(sheets.service,
                                      [title |-> name, sheetId |-> Len(sheets.service) + 1])
                          ELSE sheets.service
           IN  \* the service refuses a second sheet of the same title
               /\ (~existed /\ HasSheet(sheets.service, name)) => n = 1
               /\ io' = [k \in 1..(IF n = 0 THEN Len(calls) ELSE n) |->
                            IF k = n THEN [calls[k] EXCEPT !.ok = FALSE] ELSE calls[k]]
               /\ sheets' = [loaded |-> IF ~existed /\ (n = 0 \/ n > 2)
                                        THEN service ELSE sheets.loaded,
                             service |-> service]
               /\ last' = Outcome("sheets_setitem",
                                  IF n = 0 THEN NoError
                                  ELSE IF calls[n].type = "get"
                                  THEN "GoogleAuthorizationError" ELSE "HttpError",
                                  <<>>, None, <<name>>, df)
    /\ UNCHANGED <<content, slide_batch, img_batch, image_batch, text_batch,
                   requests, scope_stack, blocks, appended>>
    /\ UNCHANGED <<fillVars, slide_text, pages, slide_page>>

\* --------------------------------------------------------------------------
\* Specifications
\* --------------------------------------------------------------------------
\* Slides(doc_id) fetched the presentation `deck`; slide = slides[page]
SlidesInit(deck, page) ==
    /\ pages = deck
    /\ slide_page = page
    /\ content = deck[page]
    /\ slide_text = Parse(deck[page]).text
    /\ sheets = [loaded |-> NewSpreadsheet, service |-> NewSpreadsheet]
    /\ slide_batch = None
    /\ img_batch = None
    /\ image_batch = [k \in 1..Len(SlideImg) |-> None]
    /\ text_batch = [k \in 1..Len(SlideText) |-> None]
    /\ requests = [b \in BatchUpdates |-> <<>>]
    /\ scope_stack = <<>>
    /\ blocks = NoBlocks
    /\ appended = [b \in BatchUpdates |-> <<>>]
    /\ last = Op("init", FALSE, <<>>)
    /\ io = <<>>

\* Slide.__init__ on the given page
SlideInit(pageElements) == SlidesInit(<<pageElements>>, 1)

\* the parser and request builder on every assembled value
InitFill == FillInput(Inputs) /\ SlideInit(BatchPage)

NextFill == FillCall

SpecFill == InitFill /\ [][NextFill]_vars

\* the parser on the well-nested bold / italic values
InitNest == FillInput(NestInputs) /\ SlideInit(BatchPage)

SpecNest == InitNest /\ [][NextFill]_vars

\* the parser on values with a `<` that starts no tag
InitAngle == FillInput(AngleInputs) /\ SlideInit(BatchPage)

SpecAngle == InitAngle /\ [][NextFill]_vars

\* the request builder on links with a color attribute
InitColor ==
    /\ fill_pc = "idle"
    /\ fill_parts \in ColorInputs
    /\ new_text = ColorText(fill_parts)
    /\ fill_result = NoResult
    /\ SlideInit(BatchPage)

SpecColor == InitColor /\ [][NextFill]_vars

\* the batching scenarios on one slide
Init == FillInit /\ SlideInit(BatchPage)

Next ==
    \/ SetItem
    \/ SetImage
    \/ NewBatchUpdate
    \/ Enter
    \/ Exit
    \/ Reparse

Spec == Init /\ [][Next]_vars

\* the element registry on every page
InitPage == FillInit /\ \E pageElements \in Pages : SlideInit(pageElements)

NextPage ==
    \/ CallFind
    \/ CallFindAll
    \/ Reparse

SpecPage == InitPage /\ [][NextPage]_vars

\* parse on pages whose elements carry the fields of several rules
InitMixed == FillInit /\ \E pageElements \in MixedPages : SlideInit(pageElements)

NextMixed ==
    \/ Reparse
    \/ CallFindAll

SpecMixed == InitMixed /\ [][NextMixed]_vars

\* the presentation: its slides, the edits of a slide, deletion
InitDeck == FillInit /\ \E deck \in Decks : SlidesInit(deck, 1)

NextDeck ==
    \/ NewSlides
    \/ GetItem
    \/ SetItem
    \/ DeleteById

SpecDeck == InitDeck /\ [][NextDeck]_vars

\* image replaces inside and outside scopes
NextImages ==
    \/ SetAnyImage
    \/ EnterOutermost
    \/ Exit

SpecImages == Init /\ [][NextImages]_vars

\* the spreadsheet: dataframes written to its sheets
NextSheets == SetSheet

SpecSheets == Init /\ [][NextSheets]_vars

\* the text handles: the runs of the slide and the collections built from them
NextHandles ==
    \/ CallFind
    \/ CallFindAll
    \/ CallAdd
    \/ CallIAdd
    \/ SetText
    \/ ChangeText
    \/ ReplaceText
    \/ Enter
    \/ Exit

SpecHandles == Init /\ [][NextHandles]_vars

\* the collections returned by find / find_all, used inside and outside scopes
NextBlocks ==
    \/ CallFind
    \/ CallFindAll
    \/ ChangeText
    \/ ReplaceText
    \/ Enter
    \/ Exit

SpecBlocks == Init /\ [][NextBlocks]_vars

\* the service accepted every call of the operation
Accepted == \A k \in 1..Len(io) : io[k].ok

SetItemAccepted == SetItem /\ Accepted'

SetImageAccepted == SetImage /\ Accepted'

ExitAccepted == Exit /\ Accepted'

\* scopes and edits of one slide on a service that accepts every call
NextDelivery ==
    \/ SetItemAccepted
    \/ SetImageAccepted
    \/ Enter
    \/ ExitAccepted

SpecDelivery == Init /\ [][NextDelivery]_vars

\* chart replaces inside and outside scopes
InitCharts == FillInit /\ SlideInit(ChartPage)

NextCharts ==
    \/ SetChart
    \/ SetItem
    \/ EnterNew
    \/ Exit

SpecCharts == InitCharts /\ [][NextCharts]_vars

\* edits of the text runs and the queries after them
NextSnapshot ==
    \/ SetItem
    \/ CallFind
    \/ CallFindAll
    \/ ChangeText
    \/ ReplaceText
    \/ EnterFresh
    \/ Exit

SpecSnapshot == Init /\ [][NextSnapshot]_vars

\* scopes whose body raises
NextRaising ==
    \/ SetItem
    \/ SetImage
    \/ EnterNew
    \/ Exit
    \/ ExitRaised

SpecRaising == Init /\ [][NextRaising]_vars

\* scopes inside scopes: the edits of the slide and of its images
NextNested ==
    \/ SetItem
    \/ SetImage
    \/ EnterNew
    \/ Exit

SpecNested == Init /\ [][NextNested]_vars

\* --------------------------------------------------------------------------
\* Properties of the batch scope
\* --------------------------------------------------------------------------
\* the operations that produce instructions: slide[query] = value, change_text
\* and replace of a collection, slide.img[key] = value
EditOps == {"setitem", "change_text", "replace", "img"}

\* the batchUpdate calls the last operation made
NetworkCalls == {k \in 1..Len(io) : io[k].type = "batchUpdate"}

IsSuffix(t, str) ==
    Len(t) <= Len(str) /\ SubSeq(str, Len(str) - Len(t) + 1, Len(str)) = t

\* the slide, its image collection, every image and every text run are unattached
Unattached ==
    /\ slide_batch = None
    /\ img_batch = None
    /\ \A k \in DOMAIN image_batch : image_batch[k] = None
    /\ \A k \in DOMAIN text_batch : text_batch[k] = None

\* a scope is active on the slide: the innermost `with` is the one attached
ScopeActive == scope_stack # <<>> /\ slide_batch = Top(scope_stack)

\* C1: while a batch scope is active on the slide, every text fill or replace
\* (through slide[query] = value or through a collection returned by find or
\* find_all) and every image replace appends its instructions to the list of
\* the scope and makes no network call of its own.
C1_EditsInScopeAreBuffered ==
    (ScopeActive /\ last.op \in EditOps)
        => /\ NetworkCalls = {}
           /\ IsSuffix(last.produced, requests[slide_batch])

\* C2: on exit of a batch scope no batchUpdate call is made if no instruction
\* was appended during the scope; otherwise exactly one call is made, for the
\* presentation of the slide, and its list is every instruction appended during
\* the scope, in the order of the operations.
C2_ExitSendsTheScopeOnce ==
    last.op = "exit"
        => IF appended[last.scope] = <<>>
           THEN NetworkCalls = {}
           ELSE /\ Len(io) = 1
                /\ io[1].type = "batchUpdate"
                /\ io[1].doc = DocId
                /\ io[1].requests = appended[last.scope]

\* C3: after __exit__ is left, whether the combined call succeeded or raised,
\* the slide, its image collection, every image and every text run are
\* unattached.
C3_ExitDetaches == last.op = "exit" => Unattached

\* C4: at every __enter__, however often the BatchUpdate object was entered
\* and exited before, the list attached to the slide holds no instructions.
C4_EnterAttachesEmptyList ==
    last.op = "enter" => slide_batch = last.scope /\ requests[slide_batch] = <<>>

\* --------------------------------------------------------------------------
\* Properties of fill
\* --------------------------------------------------------------------------
Called == fill_pc # "idle"

Returned == fill_pc = "returned"

\* link openers that are cut short: no href, no href value, no closing `>`
Incomplete == {"<a", "<a href=", "<a href='u'"}

\* link openers that are complete but for a quote
Unquoted == {"<a href=u>", "<a href='u' color=red>"}

\* the tags of a value: bold, italic, the well-formed link openers, </a>
Tags == {"<b>", "</b>", "<i>", "</i>", "</a>"} \cup LinkFrags

IsTag(f) == f \in Tags

IsLiteral(f) == f \notin Tags

\* none of the fragments is one of `S`
Without(parts, S) == \A k \in 1..Len(parts) : parts[k] \notin S

\* a ranged style instruction on r = (start, end, ...)
StylesRange(req, fields, r) ==
    /\ req.kind = "updateTextStyle"
    /\ req.objectId = TheBlock.obj_id
    /\ req.fields = fields
    /\ req.range = <<r[1], r[2]>>

\* C5: whenever fill returns, its list is deleteText, insertText of the clean
\* text, the base style on the whole run with fields "*", then one ranged
\* instruction per bold range, per italic range and per link range, each group
\* in the order of detection; its length is 3 + #bold + #italic + #link.  For
\* a value without any complete tag the list has 3 instructions and inserts
\* the value unchanged.
C5_FillInstructionOrder ==
    Returned =>
        LET reqs == fill_result.requests
            bold == fill_result.bold_ranges
            italic == fill_result.italic_ranges
            link == fill_result.link_ranges
        IN  /\ Len(reqs) = 3 + Len(bold) + Len(italic) + Len(link)
            /\ reqs[1].kind = "deleteText" /\ reqs[1].objectId = TheBlock.obj_id
            /\ reqs[2].kind = "insertText" /\ reqs[2].objectId = TheBlock.obj_id
            /\ reqs[2].text = fill_result.clean_text
            /\ reqs[3].kind = "updateTextStyle" /\ reqs[3].objectId = TheBlock.obj_id
            /\ reqs[3].style = TheBlock.style /\ reqs[3].fields = "*"
            /\ reqs[3].range = NoRange
            /\ \A k \in 1..Len(bold) : StylesRange(reqs[3 + k], "bold", bold[k])
            /\ \A k \in 1..Len(italic) :
                    StylesRange(reqs[3 + Len(bold) + k], "italic", italic[k])
            /\ \A k \in 1..Len(link) :
                    LET req == reqs[3 + Len(bold) + Len(italic) + k] IN
                    /\ StylesRange(req, req.fields, link[k])
                    /\ req.fields \in {"link", "link,foregroundColor"}
                    /\ req.url = link[k][3]
            /\ Without(fill_parts, Frags \ ({"x"} \cup Incomplete))
                    => Len(reqs) = 3 /\ reqs[2].text = new_text

\* a value with a bold and an italic range was filled
C5_BoldAndItalicFilled ==
    /\ Returned
    /\ fill_result.bold_ranges # <<>>
    /\ fill_result.italic_ranges # <<>>

\* how many of the first n fragments are in S
Count(parts, n, S) == Cardinality({k \in 1..n : parts[k] \in S})

\* every closer of a kind comes after an opener of its own, and every opener
\* is closed
Paired(parts, opens, closes) ==
    /\ \A n \in 1..Len(parts) : Count(parts, n, closes) <= Count(parts, n, opens)
    /\ Count(parts, Len(parts), closes) = Count(parts, Len(parts), opens)

TagBalanced(parts) ==
    /\ Paired(parts, {"<b>"}, {"</b>"})
    /\ Paired(parts, {"<i>"}, {"</i>"})
    /\ Paired(parts, LinkFrags, {"</a>"})

\* the value with its tags removed, and the length of the tags
Literal(parts) == Text(SelectSeq(parts, IsLiteral))

TagLength(parts) == Len(Text(SelectSeq(parts, IsTag)))

RangesWithin(ranges, n) ==
    \A k \in 1..Len(ranges) :
        0 <= ranges[k][1] /\ ranges[k][1] <= ranges[k][2] /\ ranges[k][2] <= n

\* C6: for a tag-balanced value (text, cut-short link openers that are text,
\* and tags of which every opener has its closer) fill returns, the clean text
\* is the value with exactly the tags removed, its length is the length of the
\* value minus the length of the tags, and every range lies in the clean text.
C6_BalancedInputStripsTags ==
    (Called /\ TagBalanced(fill_parts) /\ Without(fill_parts, Unquoted))
        => /\ Returned
           /\ fill_result.clean_text = Literal(fill_parts)
           /\ Len(fill_result.clean_text) = Len(new_text) - TagLength(fill_parts)
           /\ RangesWithin(fill_result.bold_ranges, Len(fill_result.clean_text))
           /\ RangesWithin(fill_result.italic_ranges, Len(fill_result.clean_text))
           /\ RangesWithin(fill_result.link_ranges, Len(fill_result.clean_text))

\* the ranges of the pairs of one kind of tag matched by stack discipline, in
\* the order of their closers; offsets count the characters outside the tags
RECURSIVE Pairs(_, _, _, _, _)
Pairs(parts, opener, closer, pending, offset) ==
    IF parts = <<>> THEN <<>>
    ELSE IF Head(parts) = opener
    THEN Pairs(Tail(parts), opener, closer, Push(pending, offset), offset)
    ELSE IF Head(parts) = closer
    THEN IF pending # <<>>
         THEN <<<<Top(pending), offset>>>>
              \o Pairs(Tail(parts), opener, closer, Pop(pending), offset)
         ELSE Pairs(Tail(parts), opener, closer, pending, offset)
    ELSE Pairs(Tail(parts), opener, closer, pending,
               offset + (IF IsTag(Head(parts)) THEN 0 ELSE Len(Chars(Head(parts)))))

\* C7: for every value fill returns and the bold (italic) ranges are exactly
\* the <b>...</b> (<i>...</i>) pairs matched by stack discipline: a closing tag
\* with no opener pending and an opener that is never closed give no range.
C7_RangesAreTheMatchedPairs ==
    (Called /\ Without(fill_parts, Unquoted))
        => /\ Returned
           /\ fill_result.bold_ranges = Pairs(fill_parts, "<b>", "</b>", <<>>, 0)
           /\ fill_result.italic_ranges = Pairs(fill_parts, "<i>", "</i>", <<>>, 0)

\* the parse of another value gives the clean text and the bold and italic
\* ranges of the value filled
SameParse(parts) ==
    LET other == Fill(TheBlock, Text(parts)) IN
    /\ other.clean_text = fill_result.clean_text
    /\ other.bold_ranges = fill_result.bold_ranges
    /\ other.italic_ranges = fill_result.italic_ranges

\* the value filled is the only well-nested value with this clean text and
\* these ranges: rendering the ranges as tags on the clean text gives it back
OnlySource == \A parts \in NestInputs : SameParse(parts) => parts = fill_parts

FilledNested == Returned /\ WellNested(fill_parts, <<>>)

\* every element encloses some text, and no bold element encloses the same
\* text as an italic element
DistinctSpans ==
    LET bold == fill_result.bold_ranges
        italic == fill_result.italic_ranges
    IN  /\ \A k \in 1..Len(bold) : bold[k][1] < bold[k][2]
        /\ \A k \in 1..Len(italic) : italic[k][1] < italic[k][2]
        /\ \A k \in 1..Len(bold) : \A j \in 1..Len(italic) : bold[k] # italic[j]

\* C8 (as stated): for every well-nested value over <b>...</b> and <i>...</i>
\* the clean text with the bold and italic ranges rendered as tags reproduces
\* the nesting of the value.
C8_RoundTrip == FilledNested => OnlySource

\* C8 (amended): the same for the well-nested values in which every element
\* encloses at least one character and no bold element encloses exactly the
\* text of an italic element.
C8_RoundTripOfDistinctSpans == (FilledNested /\ DistinctSpans) => OnlySource

\* an italic element inside a bold element, with text of their own, was filled
C8_NestedElementsFilled ==
    /\ FilledNested
    /\ DistinctSpans
    /\ \E k \in 1..Len(fill_result.bold_ranges) :
         \E j \in 1..Len(fill_result.italic_ranges) :
            /\ fill_result.bold_ranges[k][1] <= fill_result.italic_ranges[j][1]
            /\ fill_result.italic_ranges[j][2] <= fill_result.bold_ranges[k][2]

\* the bold, italic and link-closing tags
IsPlainText(f) == f \notin {"<b>", "</b>", "<i>", "</i>", "</a>"}

\* C9: for a value whose link openers are all malformed (no href, a quote of
\* the href or of the colour missing, no closing `>`) fill returns, no link
\* range is produced, and the scan leaves every character of the malformed
\* openers in the clean text.
C9_MalformedLinkIsText ==
    (Called /\ Without(fill_parts, LinkFrags) /\ ~Without(fill_parts, BadLinkFrags))
        => /\ Returned
           /\ fill_result.link_ranges = <<>>
           /\ fill_result.formatted
                => fill_result.clean_text = Text(SelectSeq(fill_parts, IsPlainText))

\* --------------------------------------------------------------------------
\* Properties of find and find_all
\* --------------------------------------------------------------------------
\* q is a substring of t
IsSubstring(q, t) ==
    \E i \in 0..(Len(t) - Len(q)) : \A k \in 1..Len(q) : t[i + k] = q[k]

\* the text runs of the slide, in page order, that contain the query
Containing(q) ==
    LET Has(block) == IsSubstring(q, block.text) IN SelectSeq(SlideText, Has)

\* C10: find(q) returns a collection holding exactly the first text run, in
\* page order, whose text contains q; find_all(q) returns a collection holding
\* every such run in page order; when no run contains q neither raises, find
\* returns None and find_all an empty collection.
C10_FindFirstFindAll ==
    /\ last.op = "find"
         => /\ ~last.raised
            /\ IF Containing(last.query) = <<>>
               THEN blocks.isNone
               ELSE /\ ~blocks.isNone
                    /\ blocks.elements = <<Head(Containing(last.query))>>
    /\ last.op = "find_all"
         => /\ ~last.raised
            /\ ~blocks.isNone
            /\ blocks.elements = Containing(last.query)

\* find was called on a slide where a later, different run matches too
C10_FoundFirstOfSeveral ==
    /\ last.op = "find"
    /\ Len(Containing(last.query)) >= 2
    /\ Containing(last.query)[1] # Containing(last.query)[Len(Containing(last.query))]
    /\ ~blocks.isNone

\* --------------------------------------------------------------------------
\* Text handles
\* --------------------------------------------------------------------------
\* the object ids an element of a collection stands for
ObjIdsOf(element) ==
    IF IsTextBlock(element) THEN {element.obj_id} ELSE element.obj_ids

\* C11: in every collection of text runs reachable through find, find_all, add
\* and += no two elements share an object_id: adding a run whose object_id is
\* already present (by add, by += of a single run or by += of a collection)
\* leaves the number of elements unchanged, so there are as many elements as
\* object ids.
C11_NoSharedObjectId ==
    /\ \A i, j \in 1..Len(blocks.elements) :
          i # j => ObjIdsOf(blocks.elements[i]) \intersect ObjIdsOf(blocks.elements[j]) = {}
    /\ Len(blocks.elements) = Cardinality(blocks.obj_ids)

\* C12: after `blocks += other`, both returned by find on the same slide,
\* blocks.replace(key, value) raises nothing of its own (only a failure of the
\* service can reach the caller) and produces, for one dispatch, the fill
\* instructions of every text run of both collections.
C12_ReplaceAfterIAdd ==
    (/\ last.op = "replace"
     /\ \E k \in 1..Len(blocks.elements) : ~IsTextBlock(blocks.elements[k]))
    => /\ last.error \in {NoError, "HttpError"}
       /\ Len(io) = 1
       /\ NumEdits(last.produced) = Cardinality(blocks.obj_ids)

\* C13: assigning a value to the `text` property of a text handle, a single
\* text run (slide.text[k]) or a collection, produces the fill instructions of
\* the handle for the value and dispatches them in a batchUpdate call, or
\* appends them to the list of the active scope the handle is attached to.
C13_TextAssignmentFills ==
    /\ last.op = "text" =>
          LET k == last.value
              reqs == Fill(slide_text[k], slide_text[k].text).requests
          IN  /\ last.produced = reqs
              /\ IF text_batch[k] = None
                 THEN \E c \in NetworkCalls : io[c].requests = reqs
                 ELSE IsSuffix(reqs, requests[text_batch[k]])
    /\ (last.op = "change_text" /\ last.error \in {NoError, "HttpError"}) =>
          /\ last.produced # <<>>
          /\ IF blocks.batch = None
             THEN \E c \in NetworkCalls : io[c].requests = last.produced
             ELSE IsSuffix(last.produced, requests[blocks.batch])

\* --------------------------------------------------------------------------
\* Image replace
\* --------------------------------------------------------------------------
\* the storage calls the last operation made
Uploads == {k \in 1..Len(io) : io[k].type = "upload"}

\* C14: an image replace with a value that starts with `http` uploads nothing
\* and produces a replaceImage instruction whose url is the value; with any
\* other value the file is uploaded first (the one storage call, ahead of any
\* batchUpdate call) and the replaceImage instruction carries the signed URL
\* of the uploaded file. Plain values and (value, link) pairs alike, whether
\* the instructions are dispatched or appended to the list of a scope.
C14_UploadBeforeReplaceImage ==
    (last.op = "img" /\ last.error # "KeyError") =>
        /\ last.produced # <<>>
        /\ last.produced[1].kind = "replaceImage"
        /\ \A k \in 2..Len(last.produced) : last.produced[k].kind # "replaceImage"
        /\ IF StartsAt(last.query, Http, 0)
           THEN /\ Uploads = {}
                /\ last.produced[1].url = last.query
           ELSE /\ Uploads = {1}
                /\ io[1].file = last.query
                /\ last.produced[1].url = SignedUrl(last.query)
        /\ \/ NetworkCalls = {Len(io)} /\ io[Len(io)].requests = last.produced
           \/ /\ NetworkCalls = {}
              /\ \E b \in BatchUpdates : IsSuffix(last.produced, requests[b])

\* a (file, link) pair replaced an image inside a scope: uploaded, buffered
C14_PairUploadedInScope ==
    /\ last.op = "img"
    /\ Uploads = {1}
    /\ NetworkCalls = {}
    /\ Len(last.produced) = 2
    /\ last.produced[2].kind = "updateImageProperties"
    /\ ScopeActive

\* --------------------------------------------------------------------------
\* Slides
\* --------------------------------------------------------------------------
\* C15: for a presentation of N slides, slides[k] with 1 <= k <= N returns the
\* handle of the k-th slide (page number k, content and text runs of the k-th
\* page) and slides[0] ends with KeyError, not with an IndexError of the list.
C15_PagesAreOneIndexed ==
    last.op = "getitem" =>
        LET page == last.query[1] IN
        /\ page = 0 => last.error = "KeyError"
        /\ (1 <= page /\ page <= Len(pages)) =>
              /\ ~last.raised
              /\ slide_page = page
              /\ content = pages[page]
              /\ slide_text = Parse(pages[page]).text

\* the second of two different pages was taken
C15_SecondSlideTaken ==
    /\ last.op = "getitem"
    /\ last.query = <<2>>
    /\ ~last.raised
    /\ Len(pages) = 2
    /\ pages[1] # pages[2]

\* calls of the last operation that the service rejected
Rejected(types) == {k \in 1..Len(io) : io[k].type \in types /\ ~io[k].ok}

\* C17: whenever the service rejects a fetch (presentations().get) or a
\* batched update (batchUpdate), the error that reaches the caller is the
\* distinguished authorization error, which carries the service-identity email
\* in its message, and the rejected call was made once.
C17_RejectionIsAuthorizationError ==
    Rejected({"get", "batchUpdate"}) # {} =>
        /\ last.error = "GoogleAuthorizationError"
        /\ Cardinality(Rejected({"get", "batchUpdate"})) = 1

\* C19: Slides.delete_by_id returns True when the deletion succeeds and
\* returns False, raising nothing, when the service answers 404.
C19_DeleteReturnsFalseWhenNotFound ==
    last.op = "delete_by_id" =>
        /\ io[1].status = 200 => (~last.raised /\ last.value = "True")
        /\ io[1].status = 404 => (~last.raised /\ last.value = "False")

\* --------------------------------------------------------------------------
\* Sheets
\* --------------------------------------------------------------------------
\* the batchUpdate calls in `calls` whose request is of the given kind
CallsOf(calls, kind) ==
    {k \in 1..Len(calls) :
        calls[k].type = "batchUpdate" /\ kind \in DOMAIN calls[k].requests[1]}

\* C16: sheets[name] = df for a dataframe of r rows and c columns. If a sheet
\* titled name is loaded no addSheet is sent. When no call raises: if no such
\* sheet was loaded, exactly one addSheet with rowCount = max(r, 1000) and
\* columnCount = max(c, 26) is sent first and the sheet list is reloaded; then
\* exactly one clear and, last, exactly one append follow; the append carries
\* exactly c column entries, each the header of the column followed by its r
\* values (those of a datetime column as formatted).
C16_SetItemCallSequence ==
    [][last'.op = "sheets_setitem" =>
         LET name == last'.query[1]
             df == last'.value
             r == df.shape[1]
             c == df.shape[2]
             existed == HasSheet(sheets.loaded, name)
             n == Len(io')
         IN  /\ existed => CallsOf(io', "addSheet") = {}
             /\ ~last'.raised =>
                  /\ IF existed THEN n = 2
                     ELSE /\ n = 4
                          /\ CallsOf(io', "addSheet") = {1}
                          /\ io'[1].requests[1].addSheet.title = name
                          /\ io'[1].requests[1].addSheet.rowCount
                               = (IF r > RowFloor THEN r ELSE RowFloor)
                          /\ io'[1].requests[1].addSheet.columnCount
                               = (IF c > ColFloor THEN c ELSE ColFloor)
                          /\ io'[2].type = "get"
                          /\ HasSheet(sheets'.loaded, name)
                  /\ CallsOf(io', "updateCells") = {n - 1}
                  /\ {k \in 1..n : io'[k].type = "append"} = {n}
                  /\ Len(io'[n].body.values) = c
                  /\ \A j \in 1..c :
                        /\ Len(io'[n].body.values[j]) = r + 1
                        /\ io'[n].body.values[j][1] = df.columns[j]
                        /\ \A i \in 1..r :
                              io'[n].body.values[j][i + 1] =
                                 IF df.dtype[j] = "datetime64[ns]"
                                 THEN strftime(df.values[j][i]) ELSE df.values[j][i]
    ]_vars

\* a missing sheet was created for a dataframe narrower than the row floor and
\* wider than the column floor, then cleared and filled
C16_SheetCreatedWithFloor ==
    /\ last.op = "sheets_setitem"
    /\ ~last.raised
    /\ Len(io) = 4
    /\ last.value.shape = <<2, ColFloor + 1>>
    /\ io[1].requests[1].addSheet.rowCount = RowFloor
    /\ io[1].requests[1].addSheet.columnCount = ColFloor + 1

\* --------------------------------------------------------------------------
\* Link colours
\* --------------------------------------------------------------------------
PaletteNames ==
    { <<"r","e","d">>, <<"g","r","e","e","n">>, <<"b","l","u","e">>,
      <<"b","l","a","c","k">>, <<"w","h","i","t","e">>, <<"y","e","l","l","o","w">>,
      <<"p","u","r","p","l","e">>, <<"o","r","a","n","g","e">>, <<"g","r","a","y">>,
      <<"g","r","e","y">> }

\* a palette name in any case, or # and six hexadecimal digits
UsableColor(color) ==
    \/ Lower(color) \in PaletteNames
    \/ /\ Len(color) = 7
       /\ color[1] = "#"
       /\ \A k \in 2..7 : IsHexDigit(color[k])

\* the link style instructions of the result, in order
LinkInstructions ==
    SelectSeq(fill_result.requests,
              LAMBDA req : req.kind = "updateTextStyle" /\ req.style = "link")

\* C18: a link whose color attribute is neither a palette name nor a valid
\* #RRGGBB value still yields exactly one link style instruction for its
\* range, with the url set, no foreground colour and fields equal to "link";
\* an unusable colour never makes fill fail and never removes the link.
C18_UnusableColorIsOmitted ==
    fill_pc # "idle" =>
        /\ fill_pc = "returned"
        /\ Len(LinkInstructions) = Len(fill_parts)
        /\ \A k \in 1..Len(fill_parts) :
              /\ LinkInstructions[k].range = <<2 * k - 1, 2 * k>>
              /\ LinkInstructions[k].url = <<"u">>
              /\ ~UsableColor(fill_parts[k]) =>
                    /\ LinkInstructions[k].fields = "link"
                    /\ LinkInstructions[k].rgb = NoRGB

\* --------------------------------------------------------------------------
\* Propagation of the attachment
\* --------------------------------------------------------------------------
\* C20: attachment and detachment are total: in every state reached by scope
\* entries, scope exits, edits and re-parses, the image collection, every
\* image and every text run of the slide hold the attachment the slide itself
\* holds (the same list, or none).
C20_AttachmentIsTotal ==
    /\ img_batch = slide_batch
    /\ \A k \in DOMAIN image_batch : image_batch[k] = slide_batch
    /\ \A k \in DOMAIN text_batch : text_batch[k] = slide_batch

Occurrences(instr, list) == Cardinality({k \in 1..Len(list) : list[k] = instr})

\* the two lists hold the same instructions, each as often
SameInstructions(s, t) ==
    \A instr \in {s[k] : k \in 1..Len(s)} \union {t[k] : k \in 1..Len(t)} :
        Occurrences(instr, s) = Occurrences(instr, t)

\* instructions that wait for the exit of a scope: those appended to the lists
\* of the scopes entered and not yet exited, since their entry
Pending == Concat([k \in 1..Len(scope_stack) |-> appended[scope_stack[k]]])

\* instructions the last operation sent to the service
Sent ==
    Concat([k \in 1..Len(io) |->
               IF io[k].type = "batchUpdate" /\ io[k].ok THEN io[k].requests ELSE <<>>])

\* C22: with every network call succeeding, each instruction produced by
\* slide[query] = value or an image replace is sent to the service exactly
\* once by the time all scopes have exited, nested scopes and re-entered
\* BatchUpdate objects included. Step by step: what an operation sends and
\* what waits after it are the instructions that waited before it and those
\* it produced, each as often; when no scope is open nothing waits.
C22_EachInstructionSentOnce ==
    [][SameInstructions(Sent' \o Pending', Pending \o last'.produced)]_vars

\* --------------------------------------------------------------------------
\* Tags in the inserted text
\* --------------------------------------------------------------------------
\* the text of the insertText instruction of the result
InsertedText == fill_result.requests[2].text

\* C23: for every value, each <b>, </b>, <i> and </i> is consumed by the
\* parser and is absent from the inserted text, whether or not the tag has a
\* partner in the value: an unmatched opening tag is dropped, not inserted as
\* literal characters.
C23_BoldItalicTagsAreConsumed ==
    Returned => \A tag \in {TagB, TagBEnd, TagI, TagIEnd} : ~Contains(InsertedText, tag)

\* the link ranges of the well-formed links of the value, matched by stack
\* discipline
LinkPairs(parts) ==
    LET pairs == Pairs(parts, "<a href='u'>", "</a>", <<>>, 0)
    IN  [k \in 1..Len(pairs) |-> <<pairs[k][1], pairs[k][2], <<"u">>, NoColor>>]

\* C24: a `<` that begins none of <b>, </b>, <i>, </i>, </a> and no link
\* opener with an href of its own before its own `>` is copied to the clean
\* text as a literal character and the scan goes on at the very next
\* character: no character after it is skipped and no attribute of a later tag
\* is attributed to it. So the clean text is the value without its tags, and
\* the links are those of the well-formed openers.
C24_StrayAngleIsLiteral ==
    (Returned /\ fill_result.formatted)
        => /\ fill_result.clean_text = Literal(fill_parts)
           /\ fill_result.link_ranges = LinkPairs(fill_parts)
           /\ fill_result.bold_ranges = Pairs(fill_parts, "<b>", "</b>", <<>>, 0)

\* --------------------------------------------------------------------------
\* Chart replace
\* --------------------------------------------------------------------------
\* the page element of the slide with the given object id
PageElement(obj_id) ==
    content[CHOOSE k \in 1..Len(content) : content[k].objectId = obj_id]

\* C25: a chart replace makes exactly one batchUpdate call, at once, for the
\* presentation of the slide, with exactly 3 instructions in the order
\* deleteObject, createSheetsChart (the object id, size, transform and page of
\* the chart replaced, bound to the given spreadsheet id and chart id),
\* refreshSheetsChart. With a batch scope active on the slide the call is
\* made at once all the same and the list of the scope is left unchanged.
C25_ChartReplaceIsImmediate ==
    [][(last'.op = "chart" /\ last'.error # "IndexError") =>
         /\ Len(io') = 1
         /\ io'[1].type = "batchUpdate"
         /\ io'[1].doc = DocId
         /\ requests' = requests
         /\ LET reqs == io'[1].requests
                obj_id == Parse(content).chart[last'.query[1] + 1].obj_id
            IN  /\ Len(reqs) = 3
                /\ reqs[1] = [kind |-> "deleteObject", objectId |-> obj_id]
                /\ reqs[2].kind = "createSheetsChart"
                /\ reqs[2].objectId = obj_id
                /\ PageElement(obj_id).sheetsChart
                /\ reqs[2].size = PageElement(obj_id).size
                /\ reqs[2].transform = PageElement(obj_id).transform
                /\ reqs[2].pageObjectId = SlideId
                /\ reqs[2].spreadsheetId = last'.value.spreadsheet_id
                /\ reqs[2].chartId = last'.value.chart_id
                /\ reqs[3] = [kind |-> "refreshSheetsChart", objectId |-> obj_id]
      ]_vars

\* the second chart was replaced inside a scope that holds instructions
C25_ChartReplacedInsideScope ==
    /\ last.op = "chart"
    /\ last.query = <<1>>
    /\ ~last.raised
    /\ ScopeActive
    /\ requests[slide_batch] # <<>>
    /\ Len(io) = 1

\* --------------------------------------------------------------------------
\* Calls without instructions
\* --------------------------------------------------------------------------
\* C26: every batchUpdate call sent to the presentation service carries at
\* least one instruction, for every operation (change_text and replace on a
\* collection returned by find or find_all, slide[query] = value, image
\* replace, chart replace, scope exit) in every state, a collection with no
\* elements included.
C26_NoEmptyBatchUpdate == \A k \in NetworkCalls : io[k].requests # <<>>

\* --------------------------------------------------------------------------
\* A scope whose body raises
\* --------------------------------------------------------------------------
\* the last operation was the exit of a scope whose body raised after
\* instructions had been appended to its list
BodyRaised ==
    /\ last.op = "exit"
    /\ last.value # NoError
    /\ appended[last.scope] # <<>>

C28_EditsKeepTheSnapshot ==
    /\ Len(slide_text) = Len(Parse(content).text)
    /\ \A k \in 1..Len(slide_text) :
          /\ slide_text[k].text = Parse(content).text[k].text
          /\ slide_text[k].style = Parse(content).text[k].style
    /\ last.op = "find" =>
          (IF Containing(last.query) = <<>> THEN blocks.isNone
           ELSE blocks.elements = <<Parse(content).text[Min(Matches(Parse(content).text,
                                                                    last.query))]>>)
    /\ last.op = "find_all" =>
          blocks.elements = Matching(Parse(content).text, last.query)

\* a run was replaced in, inside a scope, by a text that holds the query no
\* more; the query still finds it
C28_FoundAfterReplace ==
    /\ last.op = "find"
    /\ ~blocks.isNone
    /\ \E b \in BatchUpdates :
          \E k \in 1..Len(requests[b]) :
             /\ requests[b][k].kind = "insertText"
             /\ requests[b][k].objectId = blocks.elements[1].obj_id
             /\ ~Contains(requests[b][k].text, last.query)

\* --------------------------------------------------------------------------
\* slide[query] = value without a match
\* --------------------------------------------------------------------------
\* no text run handle of the slide contains q
NoRunContains(q) ==
    \A k \in 1..Len(slide_text) : ~IsSubstring(q, slide_text[k].text)

\* C29: slide[query] = value when no text run of the slide contains query is
\* a silent no-op: it raises no error, makes no network call, appends nothing
\* to an active batch scope and leaves every handle unchanged.
C29_NoMatchIsSilent ==
    [][(last'.op = "setitem" /\ last'.query # NoQuery /\ NoRunContains(last'.query))
       => /\ ~last'.raised
          /\ last'.produced = <<>>
          /\ io' = <<>>
          /\ requests' = requests
          /\ appended' = appended
          /\ slide_text' = slide_text
          /\ text_batch' = text_batch
          /\ content' = content
          /\ blocks' = blocks
          /\ img_batch' = img_batch
          /\ image_batch' = image_batch
          /\ slide_batch' = slide_batch
          /\ scope_stack' = scope_stack]_vars

\* slide[query] = value with a query no run contains, inside a scope whose
\* list holds the instructions of an earlier edit
C29_NoMatchInsideScope ==
    /\ last.op = "setitem"
    /\ last.query # NoQuery
    /\ NoRunContains(last.query)
    /\ slide_batch # None
    /\ requests[slide_batch] # <<>>

\* --------------------------------------------------------------------------
\* Classification of the page elements
\* --------------------------------------------------------------------------
\* the first rule that matches a page element
ElementClass(obj) ==
    IF obj.shape /\ obj.text THEN "text"
    ELSE IF obj.image THEN "image"
    ELSE IF obj.sheetsChart THEN "chart"
    ELSE "none"

\* the page elements of one class, in page order
OfClass(class) ==
    LET Is(obj) == ElementClass(obj) = class IN SelectSeq(content, Is)

\* the text-run sub-items of a shape whose trimmed content is longer than one
\* character
KeptRuns(obj) ==
    LET Kept(item) == item.textRun /\ Len(Strip(item.content)) > 1
    IN  SelectSeq(obj.textElements, Kept)

\* the text run handles of the slide that stand for one page element
RunsOf(obj_id) ==
    LET Of(block) == block.obj_id = obj_id IN SelectSeq(slide_text, Of)

\* position of a page element on the page
PagePosition(obj_id) == CHOOSE k \in 1..Len(content) : content[k].objectId = obj_id

\* C30: parse classifies each page element by the first matching rule and no
\* other. An element with shape.text contributes one text run per text-run
\* sub-item whose trimmed content is longer than one character and is never
\* also an image or a chart; otherwise an element with an image field is
\* exactly one image, titled by its description when present; otherwise an
\* element with a sheetsChart field is exactly one chart; any other element
\* contributes nothing. Handles keep page order.
C30_FirstMatchingRule ==
    /\ \A k \in 1..Len(content) :
          IF ElementClass(content[k]) = "text"
          THEN /\ Len(RunsOf(content[k].objectId)) = Len(KeptRuns(content[k]))
               /\ \A j \in 1..Len(KeptRuns(content[k])) :
                     RunsOf(content[k].objectId)[j] =
                        [obj_id |-> content[k].objectId,
                         text |-> Strip(KeptRuns(content[k])[j].content),
                         style |-> KeptRuns(content[k])[j].style]
          ELSE RunsOf(content[k].objectId) = <<>>
    /\ \A j \in 1..Len(slide_text) :
          \E k \in 1..Len(content) : content[k].objectId = slide_text[j].obj_id
    /\ \A i, j \in 1..Len(slide_text) :
          i < j => PagePosition(slide_text[i].obj_id) <= PagePosition(slide_text[j].obj_id)
    /\ Len(SlideImg) = Len(OfClass("image"))
    /\ \A k \in 1..Len(SlideImg) :
          /\ SlideImg[k].obj_id = OfClass("image")[k].objectId
          /\ SlideImg[k].title = IF OfClass("image")[k].hasDescription
                                 THEN OfClass("image")[k].description ELSE NoTitle
    /\ Len(SlideChart) = Len(OfClass("chart"))
    /\ \A k \in 1..Len(SlideChart) :
          SlideChart[k].obj_id = OfClass("chart")[k].objectId

\* a page was parsed that has a shape with text and an image field, a shape
\* with a run that is dropped, and an image with a sheetsChart field
C30_ParsedMixedPage ==
    /\ last.op = "parse"
    /\ \E k \in 1..Len(content) :
          /\ ElementClass(content[k]) = "text"
          /\ content[k].image
          /\ RunsOf(content[k].objectId) # <<>>
    /\ \E k \in 1..Len(content) :
          /\ ElementClass(content[k]) = "text"
          /\ Len(KeptRuns(content[k])) < Len(content[k].textElements)
          /\ KeptRuns(content[k]) # <<>>
    /\ \E k \in 1..Len(content) :
          /\ ElementClass(content[k]) = "image"
          /\ content[k].sheetsChart
          /\ content[k].hasDescription

====
